---- MODULE Spec2Model ----
(***************************************************************************)
(* LiteRAG.js: the result cache (src/core/cache.ts), the /query handler of *)
(* the API server (src/api/server.ts), the retriever and the rerankers     *)
(* (src/retrieval), the metadata filter compilers (src/vector-store/       *)
(* filters) and the text splitters (src/ingestion/splitters.ts).           *)
(*                                                                         *)
(* JavaScript values are encoded as follows.  A value that may be          *)
(* undefined or null is a set: {} when absent, {v} when present.  A string *)
(* the code only compares or concatenates is a TLA+ string; a string the   *)
(* code splits, trims or slices is a sequence of one-character strings.    *)
(* An object with optional properties is a function whose DOMAIN is the    *)
(* set of properties present.                                              *)
(***************************************************************************)
EXTENDS Integers, Sequences, FiniteSets, TLC

VARIABLES
    cache,      \* InMemoryCache.cache: key -> [value, expiry]
    now,        \* Date.now(), in milliseconds
    calls,      \* per cache caller: the call whose promise it awaits
    contract,   \* the entries the cache contract of the spec says are stored
    lastSet,    \* per key, the arguments of the latest set() not yet deleted
    split,      \* a splitText() call: its splitter, its input and its progress
    fixed,      \* a FixedSizeTextSplitter.splitText() call, with its loop state
    flt,        \* a metadata filter and what the two compilers returned for it
    keyed,      \* two /query request bodies and the cache keys made for them
    config,     \* LiteRAGServer.config: which options are set
    store,      \* the documents in the vector store
    reqs,       \* per /query request: its body and where its handler stands
    rr          \* a rerank() call: its reranker, its arguments and what it returned

cacheVars == <<cache, now, calls, contract, lastSet>>

\* what the cache callers leave alone
notCache == <<split, fixed, flt, keyed, config, store, reqs, rr>>

\* what a splitText() call leaves alone
notSplit == <<cacheVars, fixed, flt, keyed, config, store, reqs, rr>>

\* what a FixedSizeTextSplitter call leaves alone
notFixed == <<cacheVars, split, flt, keyed, config, store, reqs, rr>>

\* what the filter compilers leave alone
notFilter == <<cacheVars, split, fixed, keyed, config, store, reqs, rr>>

\* what making a cache key leaves alone
notKeyed == <<cacheVars, split, fixed, flt, config, store, reqs, rr>>

\* what the /query handler leaves alone, the cache and the clock apart
notServer == <<calls, contract, lastSet, split, fixed, flt, keyed, rr>>

\* what a rerank() call leaves alone
notRerank == <<cacheVars, split, fixed, flt, keyed, config, store, reqs>>

vars == <<cache, now, calls, contract, lastSet, split, fixed, flt, keyed, config, store, reqs, rr>>

-----------------------------------------------------------------------------
(* Generic helpers *)

EmptyObj == [p \in {} |-> {}]

Has(obj, p) == p \in DOMAIN obj

Put(obj, p, v) == [q \in DOMAIN obj \cup {p} |-> IF q = p THEN v ELSE obj[q]]

Remove(obj, p) == [q \in DOMAIN obj \ {p} |-> obj[q]]

Some(s) == CHOOSE v \in s : TRUE

-----------------------------------------------------------------------------
(* JavaScript strings as sequences of characters *)

Min(a, b) == IF a <= b THEN a ELSE b

Max(a, b) == IF a >= b THEN a ELSE b

\* the sequences over alphabet of length 0..n
RECURSIVE SeqsUpTo(_, _)
SeqsUpTo(alphabet, n) ==
    IF n = 0 THEN {<<>>}
    ELSE LET shorter == SeqsUpTo(alphabet, n - 1) IN
         shorter \cup {Append(t, ch) : t \in {u \in shorter : Len(u) = n - 1}, ch \in alphabet}

\* the characters String.prototype.trim removes
Whitespace == {" ", "\n"}

\* sep occurs in text at position i (1-based)
OccursAt(text, sep, i) ==
    /\ i >= 1
    /\ i + Len(sep) - 1 <= Len(text)
    /\ SubSeq(text, i, i + Len(sep) - 1) = sep

\* String.prototype.includes
Includes(text, sep) == \E i \in 1..(Len(text) + 1) : OccursAt(text, sep, i)

\* String.prototype.split with a non-empty separator: the pieces between the
\* occurrences of sep found left to right, without overlap
RECURSIVE SplitFrom(_, _, _, _)
SplitFrom(text, sep, from, i) ==
    IF i + Len(sep) - 1 > Len(text) THEN <<SubSeq(text, from, Len(text))>>
    ELSE IF OccursAt(text, sep, i)
         THEN <<SubSeq(text, from, i - 1)>> \o SplitFrom(text, sep, i + Len(sep), i + Len(sep))
         ELSE SplitFrom(text, sep, from, i + 1)

StrSplit(text, sep) == SplitFrom(text, sep, 1, 1)

\* String.prototype.trim
RECURSIVE TrimStart(_)
TrimStart(text) ==
    IF text # <<>> /\ Head(text) \in Whitespace THEN TrimStart(Tail(text)) ELSE text

RECURSIVE TrimEnd(_)
TrimEnd(text) ==
    IF text # <<>> /\ text[Len(text)] \in Whitespace
    THEN TrimEnd(SubSeq(text, 1, Len(text) - 1)) ELSE text

Trim(text) == TrimEnd(TrimStart(text))

\* String.prototype.slice(start, end), 0-based, end exclusive: a negative
\* index counts from the end, and both are clamped to 0..length
SliceIndex(text, i) == IF i < 0 THEN Max(Len(text) + i, 0) ELSE Min(i, Len(text))

Slice(text, start, end) == SubSeq(text, SliceIndex(text, start) + 1, SliceIndex(text, end))

\* String.prototype.slice(-n): the last n characters; slice(-0) is slice(0)
SliceLast(text, n) ==
    IF n = 0 THEN text ELSE SubSeq(text, Max(Len(text) - n, 0) + 1, Len(text))

\* the concatenation of a sequence of strings
RECURSIVE Concat(_)
Concat(strs) == IF strs = <<>> THEN <<>> ELSE Head(strs) \o Concat(Tail(strs))

-----------------------------------------------------------------------------
(* InMemoryCache, src/core/cache.ts *)

MsPerSecond == 1000

\* the clock of the model: Date.now() starts at ClockStart and advances by
\* TickMs up to MaxNow
ClockStart == 1000
TickMs == 500
MaxNow == 2500
\* explicit ttl arguments are 0..MaxTtl seconds
MaxTtl == 1

CacheKeys == {"k1", "k2"}
CacheValues == {"v1", "v2"}
Callers == {"c1", "c2"}
TtlArgs == {{}} \cup {{t} : t \in 0..MaxTtl}

\* JavaScript truthiness of an optional number (undefined and 0 are falsy)
TruthyNum(opt) == opt # {} /\ Some(opt) # 0

\* set(), line 31: const expiry = ttl ? Date.now() + ttl * 1000 : undefined
SetExpiry(ttl, t) == IF TruthyNum(ttl) THEN {t + Some(ttl) * MsPerSecond} ELSE {}

\* get(), line 22: item.expiry && Date.now() > item.expiry
IsExpired(item, t) == TruthyNum(item.expiry) /\ t > Some(item.expiry)

\* get(): the value returned ({} is null)
CacheGetResult(c, key, t) ==
    IF ~Has(c, key) THEN {}
    ELSE IF IsExpired(c[key], t) THEN {}
    ELSE {c[key].value}

\* a get() that sweeps: every entry that has expired is deleted
CacheAfterGetSweeping(c, key, t) ==
    [k \in {j \in DOMAIN c : ~IsExpired(c[j], t)} |-> c[k]]

\* get(): the map after the call (an expired entry is deleted)
CacheAfterGet(c, key, t) ==
    IF Has(c, key) /\ IsExpired(c[key], t) THEN Remove(c, key) ELSE c

\* set() overwriting the value and leaving the expiry of the entry it replaces
CacheAfterSetKeepsExpiry(c, key, value, ttl, t) ==
    Put(c, key, [value |-> value,
                 expiry |-> IF Has(c, key) THEN c[key].expiry ELSE SetExpiry(ttl, t)])

\* set(): the map after the call
CacheAfterSet(c, key, value, ttl, t) ==
    Put(c, key, [value |-> value, expiry |-> SetExpiry(ttl, t)])

CacheAfterDelete(c, key) == Remove(c, key)

CacheAfterClear(c) == EmptyObj

CacheSize(c) == Cardinality(DOMAIN c)

-----------------------------------------------------------------------------
(* The contract of the Result Cache (spec 4.4), kept beside the code's map: *)
(* an entry written with a ttl expires ttl seconds after the write, an     *)
(* entry written without one never does.                                   *)

ContractExpired(e, t) == e.ttl # {} /\ t > e.at + Some(e.ttl) * MsPerSecond

ContractGetResult(m, key, t) ==
    IF ~Has(m, key) THEN {}
    ELSE IF ContractExpired(m[key], t) THEN {}
    ELSE {m[key].value}

ContractAfterGet(m, key, t) ==
    IF Has(m, key) /\ ContractExpired(m[key], t) THEN Remove(m, key) ELSE m

ContractAfterSet(m, key, value, ttl, t) ==
    Put(m, key, [value |-> value, ttl |-> ttl, at |-> t])

-----------------------------------------------------------------------------
(* Callers of one shared InMemoryCache.  Every method is an async function *)
(* without an await in its body: the body runs to completion when the      *)
(* method is called, and the caller resumes later, when the promise is     *)
(* delivered.                                                              *)

Idle == [op |-> "idle"]

CacheIdle ==
    /\ cache = EmptyObj
    /\ now = ClockStart
    /\ calls = [c \in Callers |-> Idle]
    /\ contract = EmptyObj
    /\ lastSet = EmptyObj

CacheInit ==
    /\ cache = EmptyObj
    /\ now = ClockStart
    /\ calls = [c \in Callers |-> Idle]
    /\ contract = EmptyObj
    /\ lastSet = EmptyObj

CallGet(c, key) ==
    /\ calls[c].op = "idle"
    /\ cache' = CacheAfterGet(cache, key, now)
    /\ contract' = ContractAfterGet(contract, key, now)
    /\ calls' = [calls EXCEPT ![c] =
            [op |-> "get", key |-> key,
             result |-> CacheGetResult(cache, key, now),
             at |-> now,
             written |-> IF Has(contract, key) THEN {contract[key]} ELSE {},
             stored |-> IF Has(cache, key) THEN {cache[key]} ELSE {},
             kept |-> Has(CacheAfterGet(cache, key, now), key),
             size |-> CacheSize(CacheAfterGet(cache, key, now))]]
    /\ UNCHANGED <<now, lastSet, notCache>>

CallSet(c, key, value, ttl) ==
    /\ calls[c].op = "idle"
    /\ cache' = CacheAfterSet(cache, key, value, ttl, now)
    /\ contract' = ContractAfterSet(contract, key, value, ttl, now)
    /\ calls' = [calls EXCEPT ![c] =
            [op |-> "set", key |-> key, value |-> value, ttl |-> ttl, at |-> now]]
    /\ lastSet' = Put(lastSet, key, [value |-> value, ttl |-> ttl, at |-> now])
    /\ UNCHANGED <<now, notCache>>

CallDelete(c, key) ==
    /\ calls[c].op = "idle"
    /\ cache' = CacheAfterDelete(cache, key)
    /\ contract' = Remove(contract, key)
    /\ calls' = [calls EXCEPT ![c] = [op |-> "delete", key |-> key]]
    /\ lastSet' = Remove(lastSet, key)
    /\ UNCHANGED <<now, notCache>>

CallClear(c) ==
    /\ calls[c].op = "idle"
    /\ cache' = CacheAfterClear(cache)
    /\ contract' = EmptyObj
    /\ calls' = [calls EXCEPT ![c] = [op |-> "clear"]]
    /\ lastSet' = EmptyObj
    /\ UNCHANGED <<now, notCache>>

\* the awaited promise is delivered and the caller goes on
Resume(c) ==
    /\ calls[c].op # "idle"
    /\ calls' = [calls EXCEPT ![c] = Idle]
    /\ UNCHANGED <<cache, now, contract, lastSet, notCache>>

Tick ==
    /\ now + TickMs <= MaxNow
    /\ now' = now + TickMs
    /\ UNCHANGED <<cache, calls, contract, lastSet, notCache>>

CacheNext ==
    \/ \E c \in Callers, key \in CacheKeys : CallGet(c, key)
    \/ \E c \in Callers, key \in CacheKeys, value \in CacheValues, ttl \in TtlArgs :
            CallSet(c, key, value, ttl)
    \/ \E c \in Callers, key \in CacheKeys : CallDelete(c, key)
    \/ \E c \in Callers : CallClear(c)
    \/ \E c \in Callers : Resume(c)
    \/ Tick

-----------------------------------------------------------------------------
(* RecursiveCharacterTextSplitter, src/ingestion/splitters.ts *)

\* texts are the strings over TextAlphabet of length 0..MaxTextLen
TextAlphabet == {"a", "b", " ", "\n"}
MaxTextLen == 5
\* chunkSize is 1..MaxChunkSize, chunkOverlap is 0..MaxOverlap
MaxChunkSize == 3
MaxOverlap == 1

Texts == SeqsUpTo(TextAlphabet, MaxTextLen)

\* constructor, line 15: the default separators
DefaultSeparators == << <<"\n", "\n">>, <<"\n">>, <<" ">>, <<>> >>

\* the separators of splitters.test.ts, and a list without the empty string
SeparatorConfigs == {DefaultSeparators, << <<" ">>, <<>> >>, << <<"\n">>, <<" ">> >>}

\* lines 25-40: the first separator that is '' or occurs in the text, with the
\* separators after it; the last separator and no others when there is none
SelectSeparator(text, separators) ==
    LET hits == {i \in 1..Len(separators) :
                    separators[i] = <<>> \/ Includes(text, separators[i])}
    IN  IF hits = {}
        THEN [separator |-> separators[Len(separators)], newSeparators |-> <<>>]
        ELSE LET i == CHOOSE h \in hits : \A g \in hits : h <= g IN
             IF separators[i] = <<>>
             THEN [separator |-> <<>>, newSeparators |-> <<>>]
             ELSE [separator |-> separators[i],
                   newSeparators |-> SubSeq(separators, i + 1, Len(separators))]

\* text.split(separator) also for the separator '': one split per character
SplitsIntoCharacters(text, separator) ==
    IF separator # <<>> THEN StrSplit(text, separator)
    ELSE [i \in 1..Len(text) |-> <<text[i]>>]

\* line 43: const splits = separator ? text.split(separator) : [text]
SplitsOf(text, separator) ==
    IF separator # <<>> THEN StrSplit(text, separator) ELSE <<text>>

\* lines 51-53: testChunk
TestChunk(currentChunk, separator, trimmedSplit) ==
    IF currentChunk # <<>> THEN currentChunk \o separator \o trimmedSplit ELSE trimmedSplit

\* line 55 with the bound off by one
FitsOffByOne(testChunk, cfg) == Len(testChunk) <= cfg.chunkSize + 1

\* line 55: testChunk.length <= this.chunkSize
Fits(testChunk, cfg) == Len(testChunk) <= cfg.chunkSize

\* line 64: trimmedSplit.length > this.chunkSize && newSeparators.length > 0
MustRecurse(trimmedSplit, newSeparators, cfg) ==
    Len(trimmedSplit) > cfg.chunkSize /\ Len(newSeparators) > 0

\* a push of currentChunk without the test for the empty string
FlushAlways(finalChunks, currentChunk) == Append(finalChunks, currentChunk)

\* lines 59-61 and 75-77: push currentChunk unless it is empty
Flush(finalChunks, currentChunk) ==
    IF currentChunk # <<>> THEN Append(finalChunks, currentChunk) ELSE finalChunks

\* lines 83-103
applyOverlap(chunks, cfg) ==
    IF cfg.chunkOverlap = 0 \/ Len(chunks) <= 1 THEN chunks
    ELSE [i \in 1..Len(chunks) |->
            IF i > 1 /\ cfg.chunkOverlap > 0
            THEN SliceLast(chunks[i - 1], cfg.chunkOverlap) \o <<" ">> \o chunks[i]
            ELSE chunks[i]]

RECURSIVE recursiveSplit(_, _, _)

\* lines 46-77: the loop over the splits, from split i on
RECURSIVE MergeSplits(_, _, _, _, _, _)
MergeSplits(splits, i, currentChunk, finalChunks, sel, cfg) ==
    IF i > Len(splits) THEN Flush(finalChunks, currentChunk)
    ELSE LET trimmedSplit == Trim(splits[i])
             testChunk == TestChunk(currentChunk, sel.separator, trimmedSplit)
         IN  IF trimmedSplit = <<>>
             THEN MergeSplits(splits, i + 1, currentChunk, finalChunks, sel, cfg)
             ELSE IF Fits(testChunk, cfg)
             THEN MergeSplits(splits, i + 1, testChunk, finalChunks, sel, cfg)
             ELSE IF MustRecurse(trimmedSplit, sel.newSeparators, cfg)
             THEN MergeSplits(splits, i + 1, <<>>,
                      Flush(finalChunks, currentChunk)
                          \o recursiveSplit(trimmedSplit, sel.newSeparators, cfg),
                      sel, cfg)
             ELSE MergeSplits(splits, i + 1, trimmedSplit,
                      Flush(finalChunks, currentChunk), sel, cfg)

\* lines 22-77: finalChunks as it stands at line 79, before applyOverlap
FinalChunks(text, separators, cfg) ==
    LET sel == SelectSeparator(text, separators) IN
    MergeSplits(SplitsOf(text, sel.separator), 1, <<>>, <<>>, sel, cfg)

\* lines 22-81
recursiveSplit(text, separators, cfg) ==
    applyOverlap(FinalChunks(text, separators, cfg), cfg)

SplitIdle == split = [pc |-> "idle"]

\* splitters.test.ts lines 46-52: a word of 32 characters, chunkSize 10,
\* no overlap, separators [' ', '']
LongWord ==
    <<"t", "h", "i", "s", "i", "s", "a", "l", "o", "n", "g", "w", "o", "r", "d", "t",
      "h", "a", "t", "c", "a", "n", "n", "o", "t", "b", "e", "s", "p", "l", "i", "t">>

LongWordCall ==
    [pc |-> "called", text |-> LongWord, chunkSize |-> 10, chunkOverlap |-> 0,
     separators |-> << <<" ">>, <<>> >>, finalChunks |-> <<>>, chunks |-> <<>>]

SplitInit ==
    split \in [pc : {"called"}, text : Texts, chunkSize : 1..MaxChunkSize,
               chunkOverlap : 0..MaxOverlap, separators : SeparatorConfigs,
               finalChunks : {<<>>}, chunks : {<<>>}]
              \cup {LongWordCall}

\* splitText(text), lines 18-20
splitText ==
    /\ split.pc = "called"
    /\ split' = [split EXCEPT
            !.pc = "returned",
            !.finalChunks = FinalChunks(split.text, split.separators, split),
            !.chunks = recursiveSplit(split.text, split.separators, split)]
    /\ UNCHANGED notSplit

SplitNext == splitText

-----------------------------------------------------------------------------
(* FixedSizeTextSplitter, src/ingestion/splitters.ts *)

\* texts over FixedAlphabet of length 0..MaxFixedLen, chunkSize
\* 1..MaxFixedSize, chunkOverlap 0..MaxFixedOverlap
FixedAlphabet == {"a", "b"}
MaxFixedLen == 4
MaxFixedSize == 3
MaxFixedOverlap == 3

\* a loop that does not advance is followed for LoopCap iterations
LoopCap == MaxFixedLen + 1

FixedIdle == fixed = [pc |-> "idle"]

\* constructor (lines 114-117) and lines 120-121 of splitText
FixedInit ==
    fixed \in [pc : {"loop"}, text : SeqsUpTo(FixedAlphabet, MaxFixedLen),
               chunkSize : 1..MaxFixedSize, chunkOverlap : 0..MaxFixedOverlap,
               start : {0}, chunks : {<<>>}]

\* a loop that steps by chunkSize, the overlap left out
NextStartWithoutOverlap(start, cfg) == start + cfg.chunkSize

\* line 126: start += this.chunkSize - this.chunkOverlap
NextStart(start, cfg) == start + (cfg.chunkSize - cfg.chunkOverlap)

\* a window that ends where the next one starts
WindowOfStride(text, start, cfg) ==
    Slice(text, start, Min(start + cfg.chunkSize - cfg.chunkOverlap, Len(text)))

\* lines 124-125: the chunk pushed by one iteration
Window(text, start, cfg) ==
    Slice(text, start, Min(start + cfg.chunkSize, Len(text)))

\* lines 123-127: one iteration of the while loop
FixedStep ==
    /\ fixed.pc = "loop"
    /\ fixed.start < Len(fixed.text)
    /\ Len(fixed.chunks) < LoopCap
    /\ fixed' = [fixed EXCEPT
            !.chunks = Append(@, Window(fixed.text, fixed.start, fixed)),
            !.start = NextStart(fixed.start, fixed)]
    /\ UNCHANGED notFixed

\* lines 123 and 129: the loop condition fails and chunks is returned
FixedReturn ==
    /\ fixed.pc = "loop"
    /\ ~(fixed.start < Len(fixed.text))
    /\ fixed' = [fixed EXCEPT !.pc = "returned"]
    /\ UNCHANGED notFixed

FixedNext == FixedStep \/ FixedReturn

-----------------------------------------------------------------------------
(* MetadataFilter (src/core/types.ts) and its compilers, toQdrantFilter    *)
(* (src/vector-store/filters/qdrant-filter.ts) and toOpenSearchFilter      *)
(* (src/vector-store/filters/opensearch-filter.ts).                        *)
(*                                                                         *)
(* A filter is an object with the arms present as properties.  The arms    *)
(* equals, greaterThan, lessThan, greaterThanOrEqual and lessThanOrEqual   *)
(* hold the entries of their record as a sequence of <<key, value>>, the   *)
(* arm in a sequence of <<key, values>>, and and or a sequence of filters  *)
(* and not a filter.                                                       *)

\* the arms compiled to one leaf clause per entry, in the order of the code
RangeArms == <<"greaterThan", "lessThan", "greaterThanOrEqual", "lessThanOrEqual">>

\* the range property each range arm is compiled to
RangeOp(arm) ==
    CASE arm = "greaterThan" -> "gt"
      [] arm = "lessThan" -> "lt"
      [] arm = "greaterThanOrEqual" -> "gte"
      [] arm = "lessThanOrEqual" -> "lte"

LeafArms == {"equals", "in"} \cup {RangeArms[i] : i \in 1..Len(RangeArms)}

\* `if (filter.equals)` and the like: a property that is present is an
\* object, and an object is truthy
ArmSet(filter, arm) == Has(filter, arm)

\* a list arm taken as set whenever the property is present
ListArmPresent(filter, arm) == Has(filter, arm)

\* `filter.and && filter.and.length > 0`, and the same for or
ListArmSet(filter, arm) == Has(filter, arm) /\ Len(filter[arm]) > 0

\* `must = must || []` is run by every leaf arm that is set and by a
\* non-empty and
HasMust(filter) ==
    (\E arm \in LeafArms : ArmSet(filter, arm)) \/ ListArmSet(filter, "and")

\* Object.entries of an arm that is set, none of an arm that is not
Entries(filter, arm) == IF ArmSet(filter, arm) THEN filter[arm] ELSE <<>>

\* qdrant-filter.ts lines 33-36 and 89-92
QdrantMatch(key, value) == [key |-> key, match |-> [value |-> value]]

\* qdrant-filter.ts lines 44-47, 55-58, 66-69, 77-80
QdrantRange(key, op, value) == [key |-> key, range |-> Put(EmptyObj, op, value)]

\* every field of in lowered to a should list, also one with a single value
QdrantInAlwaysShould(key, values) ==
    [should |-> [i \in 1..Len(values) |-> QdrantMatch(key, values[i])]]

\* qdrant-filter.ts lines 87-98: the entry of must for one field of in
QdrantIn(key, values) ==
    LET conditions == [i \in 1..Len(values) |-> QdrantMatch(key, values[i])] IN
    IF Len(conditions) = 1 THEN conditions[1] ELSE [should |-> conditions]

\* qdrant-filter.ts lines 30-100: the clauses the leaf arms push to must
QdrantLeafClauses(filter) ==
    LET equals == Entries(filter, "equals")
        ranges == [a \in 1..Len(RangeArms) |->
                    LET es == Entries(filter, RangeArms[a]) IN
                    [i \in 1..Len(es) |-> QdrantRange(es[i][1], RangeOp(RangeArms[a]), es[i][2])]]
        ins == Entries(filter, "in")
    IN  [i \in 1..Len(equals) |-> QdrantMatch(equals[i][1], equals[i][2])]
        \o Concat(ranges)
        \o [i \in 1..Len(ins) |-> QdrantIn(ins[i][1], ins[i][2])]

\* qdrant-filter.ts lines 26-128
RECURSIVE toQdrantFilter(_)
toQdrantFilter(filter) ==
    LET ands == IF ListArmSet(filter, "and") THEN filter["and"] ELSE <<>>
        must == QdrantLeafClauses(filter)
                    \o [i \in 1..Len(ands) |-> toQdrantFilter(ands[i])]
        q1 == IF HasMust(filter) THEN Put(EmptyObj, "must", must) ELSE EmptyObj
        q2 == IF ListArmSet(filter, "or")
              THEN Put(q1, "should",
                       [i \in 1..Len(filter["or"]) |-> toQdrantFilter(filter["or"][i])])
              ELSE q1
    IN  IF ArmSet(filter, "not")
        THEN Put(q2, "must_not", <<toQdrantFilter(filter["not"])>>)
        ELSE q2

\* opensearch-filter.ts lines 29, 39, 79: `metadata.${key}`
MetadataField(key) == "metadata." \o key

\* opensearch-filter.ts lines 28-30
OpenSearchTerm(key, value) == [term |-> Put(EmptyObj, MetadataField(key), value)]

\* opensearch-filter.ts lines 38-40, 48-50, 58-60, 68-70
OpenSearchRange(key, op, value) ==
    [range |-> Put(EmptyObj, MetadataField(key), Put(EmptyObj, op, value))]

\* opensearch-filter.ts lines 78-80
OpenSearchTerms(key, values) == [terms |-> Put(EmptyObj, MetadataField(key), values)]

\* opensearch-filter.ts lines 25-82: the clauses the leaf arms push to must
OpenSearchLeafClauses(filter) ==
    LET equals == Entries(filter, "equals")
        ranges == [a \in 1..Len(RangeArms) |->
                    LET es == Entries(filter, RangeArms[a]) IN
                    [i \in 1..Len(es) |->
                        OpenSearchRange(es[i][1], RangeOp(RangeArms[a]), es[i][2])]]
        ins == Entries(filter, "in")
    IN  [i \in 1..Len(equals) |-> OpenSearchTerm(equals[i][1], equals[i][2])]
        \o Concat(ranges)
        \o [i \in 1..Len(ins) |-> OpenSearchTerms(ins[i][1], ins[i][2])]

\* a should list of which no entry has to match
MinimumShouldMatchNone == 1 - 1

\* opensearch-filter.ts line 101
MinimumShouldMatch == 1

\* opensearch-filter.ts lines 21-112
RECURSIVE toOpenSearchFilter(_)
toOpenSearchFilter(filter) ==
    LET ands == IF ListArmSet(filter, "and") THEN filter["and"] ELSE <<>>
        must == OpenSearchLeafClauses(filter)
                    \o [i \in 1..Len(ands) |-> toOpenSearchFilter(ands[i])]
        b1 == IF HasMust(filter) THEN Put(EmptyObj, "must", must) ELSE EmptyObj
        b2 == IF ListArmSet(filter, "or")
              THEN Put(Put(b1, "should",
                           [i \in 1..Len(filter["or"]) |->
                               toOpenSearchFilter(filter["or"][i])]),
                       "minimum_should_match", MinimumShouldMatch)
              ELSE b1
        b3 == IF ArmSet(filter, "not")
              THEN Put(b2, "must_not", <<toOpenSearchFilter(filter["not"])>>)
              ELSE b2
    IN  [bool |-> b3]

\* the meaning of a filter (types.ts lines 64-91): every arm that is set must
\* hold; the entries of a leaf arm must all hold, each of a record that has
\* the field; and is all of, or is at least one of, not is none of
Compare(op, a, b) ==
    CASE op = "gt" -> a > b
      [] op = "lt" -> a < b
      [] op = "gte" -> a >= b
      [] op = "lte" -> a <= b

RECURSIVE Satisfies(_, _)
Satisfies(filter, md) ==
    /\ \A i \in 1..Len(Entries(filter, "equals")) :
            LET e == filter["equals"][i] IN Has(md, e[1]) /\ md[e[1]] = e[2]
    /\ \A a \in 1..Len(RangeArms) : \A i \in 1..Len(Entries(filter, RangeArms[a])) :
            LET e == filter[RangeArms[a]][i] IN
            Has(md, e[1]) /\ Compare(RangeOp(RangeArms[a]), md[e[1]], e[2])
    /\ \A i \in 1..Len(Entries(filter, "in")) :
            LET e == filter["in"][i] IN
            Has(md, e[1]) /\ \E j \in 1..Len(e[2]) : md[e[1]] = e[2][j]
    /\ Has(filter, "and") => \A i \in 1..Len(filter["and"]) : Satisfies(filter["and"][i], md)
    /\ Has(filter, "or") => \E i \in 1..Len(filter["or"]) : Satisfies(filter["or"][i], md)
    /\ Has(filter, "not") => ~Satisfies(filter["not"], md)

\* the filters compiled: trees of depth 0..MaxDepth over the keys x and y
\* and the values 1..MaxValue
MaxDepth == 2
MaxValue == 2

FilterKeys == {"x", "y"}

MetadataRecords == UNION {[K -> 0..(MaxValue + 1)] : K \in SUBSET FilterKeys}

LeafFilters ==
    {EmptyObj, [equals |-> <<>>], [and |-> <<>>], [or |-> <<>>]}
    \cup {[equals |-> <<<<k, v>>>>] : k \in FilterKeys, v \in 1..MaxValue}
    \cup {[equals |-> <<<<"x", 1>>, <<"y", MaxValue>>>>],
          [equals |-> <<<<"x", 1>>>>, greaterThan |-> <<<<"y", 1>>>>]}
    \cup {Put(EmptyObj, RangeArms[a], <<<<"x", v>>>>) : a \in 1..Len(RangeArms), v \in 1..MaxValue}
    \cup {Put(EmptyObj, "in", <<<<"x", vals>>>>) : vals \in SeqsUpTo(1..MaxValue, 2)}
    \cup {[in |-> <<<<"x", <<1>>>>, <<"y", <<MaxValue, 1>>>>>>],
          [equals |-> <<<<"x", 1>>>>, lessThan |-> <<<<"y", MaxValue>>>>,
           in |-> <<<<"y", <<1, MaxValue>>>>, <<"x", <<1>>>>>>]}

\* the filters put beside a subtree in a list
Siblings == {[equals |-> <<<<"y", 1>>>>], [lessThan |-> <<<<"x", 2>>>>]}

KidLists(f) == {<<f>>} \cup UNION {{<<f, g>>, <<g, f>>} : g \in Siblings}

\* the filters with f as a child
Wraps(f) ==
    {[not |-> f]}
    \cup {Put(EmptyObj, arm, kids) : arm \in {"and", "or"}, kids \in KidLists(f)}
    \cup {[equals |-> <<<<"x", 1>>>>, or |-> <<f, g>>, not |-> g] : g \in Siblings}
    \cup {[and |-> <<f>>, or |-> <<g>>] : g \in Siblings}

\* the filters with f as a child that are built on top of a nested filter
Nests(f) ==
    {[not |-> f], [and |-> <<f, [lessThan |-> <<<<"x", 2>>>>]>>],
     [or |-> <<[equals |-> <<<<"y", 1>>>>], f>>],
     [and |-> <<f>>, or |-> <<[equals |-> <<<<"y", 1>>>>]>>]}

RECURSIVE FiltersOfDepth(_)
FiltersOfDepth(d) ==
    IF d = 0 THEN LeafFilters
    ELSE LET shallower == FiltersOfDepth(d - 1) IN
         shallower \cup UNION {IF d = 1 THEN Wraps(f) ELSE Nests(f) : f \in shallower}

FilterIdle == flt = [pc |-> "idle"]

\* the filters of the examples of the documentation
TechAndViews ==
    [and |-> <<[equals |-> <<<<"category", "tech">>>>],
               [greaterThan |-> <<<<"views", 1000>>>>]>>]

TechOrLiterature ==
    [or |-> <<[equals |-> <<<<"category", "tech">>>>],
              [equals |-> <<<<"category", "literature">>>>]>>]

\* the same condition written with the two arms on one filter
TechAndViewsFlat ==
    [equals |-> <<<<"category", "tech">>>>, greaterThan |-> <<<<"views", 1000>>>>]

ExampleFilters == {TechAndViews, TechAndViewsFlat, TechOrLiterature}

\* the caller holds a filter object; given is the value it had when made
FilterInit ==
    \E f \in FiltersOfDepth(MaxDepth) \cup ExampleFilters :
        flt = [pc |-> "given", given |-> f, filter |-> f, qdrant |-> {}, opensearch |-> {},
               qdrantFirst |-> {}, opensearchFirst |-> {}]

\* a compiler that drops the empty and and or lists from its argument
FilterWithoutEmptyLists(filter) ==
    [arm \in {a \in DOMAIN filter : a \in {"and", "or"} => filter[a] # <<>>} |-> filter[arm]]

\* the filter object after a compiler has run: both only read it (no
\* assignment to filter or to an object reached from it)
FilterAfterCompile(filter) == filter

\* a call toQdrantFilter(filter)
CompileQdrant ==
    /\ flt.pc = "given"
    /\ flt' = [flt EXCEPT !.filter = FilterAfterCompile(flt.filter),
                          !.qdrant = {toQdrantFilter(flt.filter)},
                          !.qdrantFirst = IF @ = {} THEN {toQdrantFilter(flt.filter)} ELSE @]
    /\ UNCHANGED notFilter

\* a call toOpenSearchFilter(filter)
CompileOpenSearch ==
    /\ flt.pc = "given"
    /\ flt' = [flt EXCEPT !.filter = FilterAfterCompile(flt.filter),
                          !.opensearch = {toOpenSearchFilter(flt.filter)},
                          !.opensearchFirst =
                                IF @ = {} THEN {toOpenSearchFilter(flt.filter)} ELSE @]
    /\ UNCHANGED notFilter

FilterNext == CompileQdrant \/ CompileOpenSearch

-----------------------------------------------------------------------------
(* The cache key of POST /query, src/api/server.ts lines 119-122 *)

DefaultTopK == 5

\* line 119: const topK = k || 5
TopK(k) == IF TruthyNum(k) THEN Some(k) ELSE DefaultTopK

\* line 122: filter || {} (an object is truthy)
FilterOrEmpty(filter) == IF filter = {} THEN EmptyObj ELSE Some(filter)

RECURSIVE JoinStr(_, _)
JoinStr(strs, sep) ==
    IF Len(strs) = 0 THEN ""
    ELSE IF Len(strs) = 1 THEN strs[1]
    ELSE strs[1] \o sep \o JoinStr(Tail(strs), sep)

\* JSON.stringify of a string that needs no escaping
JsonString(str) == "\"" \o str \o "\""

JsonArray(items) == "[" \o JoinStr(items, ",") \o "]"

\* JSON.stringify of an object: its properties in insertion order
JsonObject(names, values) ==
    "{" \o JoinStr([i \in 1..Len(names) |-> JsonString(names[i]) \o ":" \o values[i]], ",") \o "}"

\* the arms of a filter in the order the request body lists them (here the
\* order in which the compilers read them)
ArmOrder == <<"equals">> \o RangeArms \o <<"in", "and", "or", "not">>

\* JSON.stringify(filter), for keys that need no escaping and number values
RECURSIVE Stringify(_)
Stringify(filter) ==
    LET IsSet(arm) == Has(filter, arm)
        arms == SelectSeq(ArmOrder, IsSet)
        Numbers(entries) ==
            JsonObject([i \in 1..Len(entries) |-> entries[i][1]],
                       [i \in 1..Len(entries) |-> ToString(entries[i][2])])
        Lists(entries) ==
            JsonObject([i \in 1..Len(entries) |-> entries[i][1]],
                       [i \in 1..Len(entries) |->
                            JsonArray([j \in 1..Len(entries[i][2]) |-> ToString(entries[i][2][j])])])
        ArmString(arm) ==
            CASE arm \in {"and", "or"} ->
                    JsonArray([i \in 1..Len(filter[arm]) |-> Stringify(filter[arm][i])])
              [] arm = "not" -> Stringify(filter[arm])
              [] arm = "in" -> Lists(filter[arm])
              [] OTHER -> Numbers(filter[arm])
    IN  JsonObject(arms, [i \in 1..Len(arms) |-> ArmString(arms[i])])

\* a cache key that leaves the filter out
CacheKeyWithoutFilter(query, topK, filter) ==
    "query:" \o query \o ":" \o ToString(topK)

\* line 122: `query:${query}:${topK}:${JSON.stringify(filter || {})}`
CacheKey(query, topK, filter) ==
    "query:" \o query \o ":" \o ToString(topK) \o ":" \o Stringify(FilterOrEmpty(filter))

\* the requests keyed: query texts with the characters the key is built
\* with, k absent or 0..MaxK, and filters absent, empty or not
MaxK == 5

KeyQueries ==
    {"a", "a:1", "a:5", "a:5:{}", "a:1:{}", "{", "a:5:{\"equals\":{\"x\":1}}"}

KeyTopKs == {{}} \cup {{k} : k \in 0..MaxK}

KeyFilters ==
    {{}} \cup {{f} : f \in {EmptyObj,
                            [equals |-> <<<<"x", 1>>>>],
                            [equals |-> <<<<"x", 2>>>>],
                            [equals |-> <<<<"x:5:{}", 1>>>>],
                            [not |-> [equals |-> <<<<"x", 1>>>>]],
                            [and |-> <<>>]}}

KeyBodies == [query : KeyQueries, k : KeyTopKs, filter : KeyFilters]

KeyedSlots == {"q1", "q2"}

KeyedIdle == keyed = EmptyObj

KeyedInit == keyed \in [KeyedSlots -> [body : KeyBodies, cacheKey : {{}}]]

\* the handler of one request reaches line 122
MakeKey(slot) ==
    /\ Has(keyed, slot)
    /\ keyed[slot].cacheKey = {}
    /\ keyed' = [keyed EXCEPT ![slot].cacheKey =
            {CacheKey(keyed[slot].body.query, TopK(keyed[slot].body.k), keyed[slot].body.filter)}]
    /\ UNCHANGED notKeyed

KeyedNext == \E slot \in KeyedSlots : MakeKey(slot)

-----------------------------------------------------------------------------
(* The vector store and the rerankers behind POST /query *)

\* a similarity score s is kept as the integer 1000 * s

RECURSIVE Str(_)
Str(chars) == IF chars = <<>> THEN "" ELSE Head(chars) \o Str(Tail(chars))

\* the documents ingested, with the score the engine gives each (the
\* engine ranks by embedding similarity, which is outside the repository)
Corpus ==
    [d1 |-> [content |-> <<"c", "a", "t">>, metadata |-> [x |-> 1], score |-> 900],
     d2 |-> [content |-> <<"r", "a", "g", " ", "r", "a", "g">>, metadata |-> [x |-> 2],
             score |-> 800]]

\* the hits of the engine: the documents stored, best score first
RECURSIVE Ranked(_)
Ranked(ids) ==
    IF ids = {} THEN <<>>
    ELSE LET best == CHOOSE d \in ids : \A o \in ids : Corpus[o].score <= Corpus[d].score
         IN  <<best>> \o Ranked(ids \ {best})

\* similaritySearch(query, k): limit k, no filter passed to the engine
similaritySearch(stored, query, k, filter) ==
    LET hits == Ranked(stored)
    IN  [i \in 1..Min(Max(k, 0), Len(hits)) |->
            [document |-> [id |-> hits[i], content |-> Corpus[hits[i]].content,
                           metadata |-> Corpus[hits[i]].metadata],
             score |-> Corpus[hits[i]].score]]

\* Retriever.retrieve(query, {topK, filter})
retrieve(stored, query, topK, filter) ==
    similaritySearch(stored, query, IF topK # 0 THEN topK ELSE DefaultTopK, filter)

LowerOf == [R |-> "r", A |-> "a", G |-> "g"]

toLowerCase(text) ==
    [i \in 1..Len(text) |-> IF text[i] \in DOMAIN LowerOf THEN LowerOf[text[i]] ELSE text[i]]

\* text.split(/\s+/): the pieces between the runs of whitespace
RECURSIVE SplitWhitespace(_, _)
SplitWhitespace(text, piece) ==
    IF text = <<>> THEN <<piece>>
    ELSE IF Head(text) \in Whitespace
    THEN IF Len(text) > 1 /\ text[2] \in Whitespace
         THEN SplitWhitespace(Tail(text), piece)
         ELSE <<piece>> \o SplitWhitespace(Tail(text), <<>>)
    ELSE SplitWhitespace(Tail(text), Append(piece, Head(text)))

\* the stop words longer than MinKeywordLen (the shorter ones are dropped
\* by the length test)
StopWords == {"the", "and", "but", "for", "with", "from", "are", "was", "were", "been", "being"}

MinKeywordLen == 2
MaxKeywords == 10

extractKeywords(text) ==
    LET IsKeyword(word) == Len(word) > MinKeywordLen /\ Str(word) \notin StopWords
    IN  Slice(SelectSeq(SplitWhitespace(text, <<>>), IsKeyword), 0, MaxKeywords)

\* new RegExp(keyword, 'g'): the keyword is read as a pattern.  Of the
\* characters with a meaning in a pattern the keywords here hold '+' (one or
\* more of the atom before it, greedy), '.' (any character but a newline)
\* and '(' (the start of a group, never closed: no keyword holds ')').
PatternThrows(keyword) ==
    \E i \in 1..Len(keyword) :
        \/ keyword[i] = "("
        \/ keyword[i] = "+" /\ (IF i = 1 THEN TRUE ELSE keyword[i - 1] = "+")

\* the atoms of a pattern that does not throw, each with its quantifier
Atoms(keyword) ==
    LET starts == SelectSeq([i \in 1..Len(keyword) |-> i], LAMBDA i : keyword[i] # "+")
    IN  [n \in 1..Len(starts) |->
            [ch |-> keyword[starts[n]],
             plus |-> starts[n] < Len(keyword) /\ keyword[starts[n] + 1] = "+"]]

AtomMatches(atom, content, pos) ==
    /\ pos <= Len(content)
    /\ IF atom.ch = "." THEN content[pos] # "\n" ELSE content[pos] = atom.ch

\* the position after the match of atoms[k..] the backtracking matcher
\* finds first at pos, {} when there is none
RECURSIVE MatchFrom(_, _, _, _)
MatchFrom(atoms, k, content, pos) ==
    IF k > Len(atoms) THEN {pos}
    ELSE IF ~atoms[k].plus
    THEN IF AtomMatches(atoms[k], content, pos)
         THEN MatchFrom(atoms, k + 1, content, pos + 1)
         ELSE {}
    ELSE LET taken == {n \in 1..(Len(content) - pos + 1) :
                        /\ \A j \in 0..(n - 1) : AtomMatches(atoms[k], content, pos + j)
                        /\ MatchFrom(atoms, k + 1, content, pos + n) # {}}
         IN  IF taken = {} THEN {}
             ELSE MatchFrom(atoms, k + 1, content,
                            pos + (CHOOSE n \in taken : \A m \in taken : m <= n))

\* content.match(new RegExp(keyword, 'g')).length: the matches found from
\* left to right, each search starting where the last match ended
RECURSIVE CountMatches(_, _, _)
CountMatches(content, keyword, i) ==
    IF i > Len(content) THEN 0
    ELSE LET end == MatchFrom(Atoms(keyword), 1, content, i) IN
         IF end # {} THEN 1 + CountMatches(content, keyword, Some(end))
         ELSE CountMatches(content, keyword, i + 1)

RECURSIVE SumSeq(_)
SumSeq(ns) == IF ns = <<>> THEN 0 ELSE Head(ns) + SumSeq(Tail(ns))

\* result.score * (1 + keywordScore * 0.1)
BoostDivisor == 10

BoostedScore(score, keywordScore) == (score * (BoostDivisor + keywordScore)) \div BoostDivisor

\* Array.prototype.sort((a, b) => b.score - a.score): stable, best first
RECURSIVE SortByScore(_)
SortByScore(results) ==
    IF results = <<>> THEN <<>>
    ELSE LET rest == SortByScore(Tail(results))
             ahead == SelectSeq(rest, LAMBDA r : r.score > Head(results).score)
             behind == SelectSeq(rest, LAMBDA r : r.score <= Head(results).score)
         IN  ahead \o <<Head(results)>> \o behind

\* KeywordReranker.rerank(query, results)
KeywordRerank(query, results) ==
    LET queryKeywords == extractKeywords(toLowerCase(query))
        KeywordScore(result) ==
            SumSeq([i \in 1..Len(queryKeywords) |->
                CountMatches(toLowerCase(result.document.content), queryKeywords[i], 1)])
    IN  SortByScore([i \in 1..Len(results) |->
            [results[i] EXCEPT !.score = BoostedScore(results[i].score, KeywordScore(results[i]))]])

\* KeywordReranker.rerank(query, results) throws: the first result makes a
\* RegExp of every keyword
KeywordRerankThrows(query, results) ==
    /\ results # <<>>
    /\ LET queryKeywords == extractKeywords(toLowerCase(query))
       IN  \E i \in 1..Len(queryKeywords) : PatternThrows(queryKeywords[i])

\* NoOpReranker.rerank(query, results)
NoOpRerank(query, results) == results

\* RRFReranker constructor: k = 60 when none is given
DefaultRrfK == 60

RrfK(k) == IF k = {} THEN DefaultRrfK ELSE Some(k)

\* a score that ignores the rank
RRFScoreOfFirst(k, idx) == [num |-> 1, den |-> k + 1]

\* 1 / (this.k + idx + 1), kept as a fraction
RRFScore(k, idx) == [num |-> 1, den |-> k + idx + 1]

\* b.score - a.score > 0 for fractions of positive denominator
FractionLess(a, b) == a.num * b.den < b.num * a.den

\* Array.prototype.sort((a, b) => b.score - a.score) on fractions
RECURSIVE SortByFraction(_)
SortByFraction(results) ==
    IF results = <<>> THEN <<>>
    ELSE LET rest == SortByFraction(Tail(results))
             ahead == SelectSeq(rest, LAMBDA r : FractionLess(Head(results).score, r.score))
             behind == SelectSeq(rest, LAMBDA r : ~FractionLess(Head(results).score, r.score))
         IN  ahead \o <<Head(results)>> \o behind

\* RRFReranker.rerank(query, results)
RRFRerank(k, query, results) ==
    SortByFraction([i \in 1..Len(results) |->
        [results[i] EXCEPT !.score = RRFScore(k, i - 1)]])

\* reranker.rerank(query, results) of the reranker configured
Rerank(reranker, query, results) ==
    IF reranker = "noop" THEN NoOpRerank(query, results) ELSE KeywordRerank(query, results)

-----------------------------------------------------------------------------
(* POST /query, src/api/server.ts lines 111-161.  The handler is an async  *)
(* function: it runs from one await to the next without interruption, and  *)
(* the handlers of other requests run while it waits.                      *)

ArrivalOrder == <<"r1", "r2">>

Reqs == {ArrivalOrder[i] : i \in 1..Len(ArrivalOrder)}

QueryText == <<"R", "a", "g">>

FilterOnX == [equals |-> <<<<"x", 1>>>>]

\* req.body: every property may be missing
Bodies ==
    [query : {{}, {<<>>}, {QueryText}}, k : {{}, {1}}, rerank : {{}, {TRUE}},
     filter : {{}, {FilterOnX}}, useCache : {{}, {FALSE}}]

\* LiteRAGServer.config: a cache or none, a reranker or none, cacheTTL or none
Configs ==
    [cache : BOOLEAN, reranker : {{}, {"keyword"}, {"noop"}}, cacheTTL : {{}} \cup {{t} : t \in 1..MaxTtl}]

\* line 113: useCache = true when the body has none
UseCache(body) == IF body.useCache = {} THEN TRUE ELSE Some(body.useCache)

\* line 115: !query
QueryMissing(body) == body.query = {} \/ Some(body.query) = <<>>

\* lines 123 and 151: useCache && this.config.cache
Caching(body) == UseCache(body) /\ config.cache

\* line 137: rerank && this.config.reranker
Reranking(body) == body.rerank = {TRUE} /\ config.reranker # {}

\* a handler that takes every cache read for a miss
NeverHit(cached) == FALSE

\* line 125: if (cached)
IsHit(cached) == cached # {}

\* lines 142-149: the response of a miss
FormatResponse(query, results) ==
    [query |-> query,
     results |-> [i \in 1..Len(results) |->
                    [content |-> results[i].document.content,
                     metadata |-> results[i].document.metadata,
                     score |-> results[i].score]]]

\* lines 126-129: {...cached, cached: true}
CachedResponse(cached) == Put(cached, "cached", TRUE)

ServerIdle ==
    /\ config = EmptyObj
    /\ store = {}
    /\ reqs = EmptyObj

ServerInit ==
    /\ config \in Configs
    /\ store = DOMAIN Corpus
    /\ reqs = [r \in Reqs |-> [pc |-> "idle"]]

\* the handler answers: res.json(...) or res.status(...).json(...)
Respond(req, status, response, step) ==
    [req EXCEPT !.pc = "done", !.status = status, !.response = {response},
                !.steps = Append(@, step)]

\* line 134: the handler calls retriever.retrieve, which calls
\* similaritySearch, and waits
CallRetrieve(req) ==
    [req EXCEPT !.pc = "awaitRetrieve", !.steps = Append(@, "search"), !.searches = @ + 1]

\* what similaritySearch may throw
StoreErrors == {"ECONNREFUSED", "index_not_found"}

\* a retrieve that throws an error of its own in place of the store's
RetrieveErrorReplaced(err) == "retrieve failed"

\* Retriever.retrieve, lines 28-30: the await is in no try block, so what
\* similaritySearch throws is what retrieve throws
RetrieveError(err) == err

\* a request arrives; requests are named in the order they arrive
\* lines 113-125: validation, the key, and cache.get() when caching
Receive(r, body) ==
    /\ Has(reqs, r)
    /\ reqs[r].pc = "idle"
    /\ \A i, j \in 1..Len(ArrivalOrder) :
            ArrivalOrder[j] = r /\ i < j => reqs[ArrivalOrder[i]].pc # "idle"
    /\ LET req == [pc |-> "idle", body |-> body, topK |-> TopK(body.k),
                   cacheKey |-> IF QueryMissing(body) THEN ""
                                ELSE CacheKey(Str(Some(body.query)), TopK(body.k), body.filter),
                   cached |-> {}, results |-> <<>>, response |-> {}, status |-> 0,
                   steps |-> <<>>, readKey |-> {}, writeKey |-> {}, written |-> {},
                   searches |-> 0, thrown |-> {}, caught |-> {}]
       IN  IF QueryMissing(body)
           THEN /\ reqs' = [reqs EXCEPT ![r] =
                        Respond(req, 400, [error |-> "Query is required"], "reject")]
                /\ UNCHANGED cache
           ELSE IF Caching(body)
           THEN /\ cache' = CacheAfterGet(cache, req.cacheKey, now)
                /\ reqs' = [reqs EXCEPT ![r] =
                        [req EXCEPT !.pc = "awaitGet", !.steps = <<"get">>,
                                    !.readKey = {req.cacheKey},
                                    !.cached = CacheGetResult(cache, req.cacheKey, now)]]
           ELSE /\ reqs' = [reqs EXCEPT ![r] = CallRetrieve(req)]
                /\ UNCHANGED cache
    /\ UNCHANGED <<now, config, store, notServer>>

\* lines 125-134: cache.get() has answered
AfterGet(r) ==
    /\ Has(reqs, r)
    /\ reqs[r].pc = "awaitGet"
    /\ reqs' = [reqs EXCEPT ![r] =
            IF IsHit(reqs[r].cached)
            THEN Respond(reqs[r], 200, CachedResponse(Some(reqs[r].cached)), "respond")
            ELSE CallRetrieve(reqs[r])]
    /\ UNCHANGED <<cache, now, config, store, notServer>>

\* lines 142-156 up to the next await: the response is made and, when
\* caching, cache.set() is called; otherwise the handler answers
Finish(req, results) ==
    LET response == FormatResponse(Str(Some(req.body.query)), results) IN
    IF Caching(req.body)
    THEN [req EXCEPT !.pc = "awaitSet", !.results = results, !.response = {response},
                     !.steps = Append(@, "set"), !.writeKey = {req.cacheKey},
                     !.written = {response}]
    ELSE Respond([req EXCEPT !.results = results], 200, response, "respond")

CacheAfterFinish(req, results) ==
    IF Caching(req.body)
    THEN CacheAfterSet(cache, req.cacheKey,
                       FormatResponse(Str(Some(req.body.query)), results), config.cacheTTL, now)
    ELSE cache

\* lines 134-154: retrieve() has answered
AfterRetrieve(r) ==
    /\ Has(reqs, r)
    /\ reqs[r].pc = "awaitRetrieve"
    /\ LET req == reqs[r]
           results == retrieve(store, Some(req.body.query), req.topK, req.body.filter)
       IN  IF Reranking(req.body)
           THEN /\ reqs' = [reqs EXCEPT ![r] =
                        [req EXCEPT !.pc = "awaitRerank",
                                    !.results = Rerank(Some(config.reranker), Some(req.body.query),
                                                       results),
                                    !.steps = Append(@, "rerank")]]
                /\ UNCHANGED cache
           ELSE /\ reqs' = [reqs EXCEPT ![r] = Finish(req, results)]
                /\ cache' = CacheAfterFinish(req, results)
    /\ UNCHANGED <<now, config, store, notServer>>

\* lines 134 and 157-160: similaritySearch has thrown err; the catch block
\* of the handler gets what retrieve throws and answers 500
RetrieveFails(r, err) ==
    /\ Has(reqs, r)
    /\ reqs[r].pc = "awaitRetrieve"
    /\ reqs' = [reqs EXCEPT ![r] =
            Respond([reqs[r] EXCEPT !.thrown = {err}, !.caught = {RetrieveError(err)}],
                    500, [error |-> "Failed to process query"], "fail")]
    /\ UNCHANGED <<cache, now, config, store, notServer>>

\* lines 138-154: reranker.rerank() has answered
AfterRerank(r) ==
    /\ Has(reqs, r)
    /\ reqs[r].pc = "awaitRerank"
    /\ reqs' = [reqs EXCEPT ![r] = Finish(reqs[r], reqs[r].results)]
    /\ cache' = CacheAfterFinish(reqs[r], reqs[r].results)
    /\ UNCHANGED <<now, config, store, notServer>>

\* lines 153-156: cache.set() has answered
AfterSet(r) ==
    /\ Has(reqs, r)
    /\ reqs[r].pc = "awaitSet"
    /\ reqs' = [reqs EXCEPT ![r] = Respond(reqs[r], 200, Some(reqs[r].response), "respond")]
    /\ UNCHANGED <<cache, now, config, store, notServer>>

\* handlers that clear the cache when they change the store
CacheInvalidated(c) == EmptyObj

\* the cache after POST /ingest, POST /ingest/batch and DELETE /documents:
\* none of the three handlers refers to this.config.cache
CacheAfterStoreChange(c) == c

\* POST /ingest (lines 68-87), and one turn of the loop of POST /ingest/batch
\* (lines 90-108, ingestDocuments): ingestDocument splits the content and
\* awaits vectorStore.addDocuments; a document is taken as one chunk
Ingest(d) ==
    /\ reqs # EmptyObj
    /\ d \notin store
    /\ store' = store \cup {d}
    /\ cache' = CacheAfterStoreChange(cache)
    /\ UNCHANGED <<now, config, reqs, notServer>>

\* DELETE /documents (lines 163-182): vectorStore.deleteDocuments(ids)
DeleteDocuments(ids) ==
    /\ reqs # EmptyObj
    /\ ids \cap store # {}
    /\ store' = store \ ids
    /\ cache' = CacheAfterStoreChange(cache)
    /\ UNCHANGED <<now, config, reqs, notServer>>

\* time passes
ServerTick ==
    /\ reqs # EmptyObj
    /\ now + TickMs <= MaxNow
    /\ now' = now + TickMs
    /\ UNCHANGED <<cache, config, store, reqs, notServer>>

ServerNext ==
    \/ \E r \in Reqs, body \in Bodies : Receive(r, body)
    \/ \E r \in Reqs : AfterGet(r)
    \/ \E r \in Reqs : AfterRetrieve(r)
    \/ \E r \in Reqs, err \in StoreErrors : RetrieveFails(r, err)
    \/ \E r \in Reqs : AfterRerank(r)
    \/ \E r \in Reqs : AfterSet(r)
    \/ ServerTick

\* the bodies of the /query requests that go through the cache, without a
\* filter (the store ignores it)
CachingBodies ==
    {body \in Bodies : ~QueryMissing(body) /\ UseCache(body) /\ body.filter = {}}

\* a server with a cache: documents are ingested and deleted while /query
\* requests that use the cache are handled
IngestInit == ServerInit /\ config.cache

IngestNext ==
    \/ \E r \in Reqs, body \in CachingBodies : Receive(r, body)
    \/ \E r \in Reqs : AfterGet(r)
    \/ \E r \in Reqs : AfterRetrieve(r)
    \/ \E r \in Reqs, err \in StoreErrors : RetrieveFails(r, err)
    \/ \E r \in Reqs : AfterRerank(r)
    \/ \E r \in Reqs : AfterSet(r)
    \/ \E d \in DOMAIN Corpus : Ingest(d)
    \/ \E ids \in SUBSET DOMAIN Corpus : DeleteDocuments(ids)
    \/ ServerTick

-----------------------------------------------------------------------------
(* Calls of the three rerankers, src/retrieval (rerankers)                 *)

\* queries are the strings over QueryAlphabet of length 0..MaxQueryLen and
\* the longer ones of LongQueries; result lists have 0..MaxResults results
MaxQueryLen == 3
MaxResults == 2
MaxRrfK == 1

QueryAlphabet == {"a", "+", "(", " "}

LongQueries ==
    {<<"A", "A", "A">>, <<"a", ".", "a">>,
     <<"t", "h", "e", " ", "a", "a", "a">>,
     <<"a", "a", "a", " ", " ", "a", "a", "a">>}

RerankQueries == SeqsUpTo(QueryAlphabet, MaxQueryLen) \cup LongQueries

RerankContents ==
    {<<"A", "a", "a">>, <<"a", "a", "a", "a", "a", "a">>, <<"a", "+", "a">>}

RerankScores == {800, 1000}

\* a cosine similarity of 0 and of -0.5
LowScores == {-500, 0}

\* the well-formed result lists: result i holds document i
ResultIds == [i \in 1..(MaxResults + 1) |-> "d" \o ToString(i)]

\* pairs of results that share a score of LowScores
LowScoreLists ==
    {<<<<c1, s>>, <<c2, s>>>> : c1 \in RerankContents, c2 \in RerankContents, s \in LowScores}

ResultLists ==
    UNION {[1..n -> RerankContents \X RerankScores] : n \in 0..MaxResults}
    \cup LowScoreLists

ResultList(choice) ==
    [i \in 1..Len(choice) |->
        [document |-> [id |-> ResultIds[i], content |-> choice[i][1], metadata |-> EmptyObj],
         score |-> choice[i][2]]]

\* the rerankers: NoOpReranker, KeywordReranker, RRFReranker with its k
Rerankers ==
    {[kind |-> "noop", k |-> {}], [kind |-> "keyword", k |-> {}]}
    \cup {[kind |-> "rrf", k |-> k] : k \in {{}} \cup {{n} : n \in 0..MaxRrfK}}

RerankIdle == rr = [pc |-> "idle"]

RerankInit ==
    \E reranker \in Rerankers, query \in RerankQueries, choice \in ResultLists :
        rr = [pc |-> "called", reranker |-> reranker, query |-> query,
              results |-> ResultList(choice), out |-> <<>>, again |-> <<>>]

\* reranker.rerank(query, results) throws
RerankThrows(reranker, query, results) ==
    reranker.kind = "keyword" /\ KeywordRerankThrows(query, results)

\* reranker.rerank(query, results) when it does not throw
RerankWith(reranker, query, results) ==
    CASE reranker.kind = "noop" -> NoOpRerank(query, results)
      [] reranker.kind = "keyword" -> KeywordRerank(query, results)
      [] reranker.kind = "rrf" -> RRFRerank(RrfK(reranker.k), query, results)

\* the call returns its list
RerankReturns ==
    /\ rr.pc = "called"
    /\ ~RerankThrows(rr.reranker, rr.query, rr.results)
    /\ rr' = [rr EXCEPT !.pc = "returned",
                        !.out = RerankWith(rr.reranker, rr.query, rr.results)]
    /\ UNCHANGED notRerank

\* the call throws (the promise is rejected)
RerankFails ==
    /\ rr.pc = "called"
    /\ RerankThrows(rr.reranker, rr.query, rr.results)
    /\ rr' = [rr EXCEPT !.pc = "thrown"]
    /\ UNCHANGED notRerank

\* the caller passes the list returned to the same reranker, same query
RerankAgain ==
    /\ rr.pc = "returned"
    /\ ~RerankThrows(rr.reranker, rr.query, rr.out)
    /\ rr' = [rr EXCEPT !.pc = "again",
                        !.again = RerankWith(rr.reranker, rr.query, rr.out)]
    /\ UNCHANGED notRerank

RerankNext == RerankReturns \/ RerankFails \/ RerankAgain

-----------------------------------------------------------------------------
(* Specifications: one per component, the other components standing idle *)

\* concurrent callers of one InMemoryCache
InitCache == CacheInit /\ SplitIdle /\ FixedIdle /\ FilterIdle /\ KeyedIdle /\ ServerIdle /\ RerankIdle

SpecCache == InitCache /\ [][CacheNext]_vars

\* one RecursiveCharacterTextSplitter.splitText call on any input
InitSplit == SplitInit /\ CacheIdle /\ FixedIdle /\ FilterIdle /\ KeyedIdle /\ ServerIdle /\ RerankIdle

SpecSplit == InitSplit /\ [][SplitNext]_vars

\* one FixedSizeTextSplitter.splitText call on any input
InitFixed == FixedInit /\ CacheIdle /\ SplitIdle /\ FilterIdle /\ KeyedIdle /\ ServerIdle /\ RerankIdle

SpecFixed == InitFixed /\ [][FixedNext]_vars

\* the two compilers called on any filter, in any order, any number of times
InitFilter == FilterInit /\ CacheIdle /\ SplitIdle /\ FixedIdle /\ KeyedIdle /\ ServerIdle /\ RerankIdle

SpecFilter == InitFilter /\ [][FilterNext]_vars

\* two request bodies and the keys line 122 makes for them
InitKeyed == KeyedInit /\ CacheIdle /\ SplitIdle /\ FixedIdle /\ FilterIdle /\ ServerIdle /\ RerankIdle

SpecKeyed == InitKeyed /\ [][KeyedNext]_vars

\* a server of any configuration handling two /query requests
InitServer == ServerInit /\ CacheIdle /\ SplitIdle /\ FixedIdle /\ FilterIdle /\ KeyedIdle /\ RerankIdle

SpecServer == InitServer /\ [][ServerNext]_vars

\* the server with a cache while documents are ingested and deleted
InitIngest == IngestInit /\ CacheIdle /\ SplitIdle /\ FixedIdle /\ FilterIdle /\ KeyedIdle /\ RerankIdle

SpecIngest == InitIngest /\ [][IngestNext]_vars

\* one call of a reranker on any query and result list, and a second call
\* on what the first returned
InitRerank ==
    RerankInit /\ CacheIdle /\ SplitIdle /\ FixedIdle /\ FilterIdle /\ KeyedIdle /\ ServerIdle

SpecRerank == InitRerank /\ [][RerankNext]_vars

\* one call of a splitter or of a reranker: the text and result
\* transformations of the library, each on any of its inputs
InitTransforms ==
    /\ CacheIdle /\ FilterIdle /\ KeyedIdle /\ ServerIdle
    /\ \/ SplitInit /\ FixedIdle /\ RerankIdle
       \/ FixedInit /\ SplitIdle /\ RerankIdle
       \/ RerankInit /\ SplitIdle /\ FixedIdle

TransformsNext == SplitNext \/ FixedNext \/ RerankNext

SpecTransforms == InitTransforms /\ [][TransformsNext]_vars

-----------------------------------------------------------------------------
(* Claims about the cache *)

\* C6: after set(key, v, ttl), get(key) returns v as long as the expiry time
\* (the time of the set plus ttl seconds) has not passed, always when ttl
\* was omitted; the first get(key) after the expiry time has passed returns
\* null and removes the entry.
C6_GetFollowsTtl ==
    \A c \in Callers :
        (calls[c].op = "get" /\ calls[c].written # {}) =>
            LET w == Some(calls[c].written) IN
            IF ContractExpired(w, calls[c].at)
            THEN calls[c].result = {} /\ ~calls[c].kept
            ELSE calls[c].result = {w.value}

\* C7: under any interleaving of get, set, delete and clear by concurrent
\* callers every stored entry is the value and the expiry of one set() call,
\* the latest one on its key, and a get returns null or the value of the
\* entry stored when it was called.
C7_AtomicLastWriterWins ==
    /\ \A key \in DOMAIN cache :
            /\ Has(lastSet, key)
            /\ cache[key] = [value |-> lastSet[key].value,
                             expiry |-> SetExpiry(lastSet[key].ttl, lastSet[key].at)]
    /\ \A c \in Callers :
            calls[c].op = "get" =>
                \/ calls[c].result = {}
                \/ /\ calls[c].stored # {}
                   /\ calls[c].result = {Some(calls[c].stored).value}

\* two callers have each a set() on the same key in flight, with different
\* values and ttls, and the entry is stored
C7_Witness ==
    /\ calls["c1"].op = "set" /\ calls["c2"].op = "set"
    /\ calls["c1"].key = calls["c2"].key
    /\ calls["c1"].value # calls["c2"].value
    /\ calls["c1"].ttl # calls["c2"].ttl
    /\ calls["c1"].at < calls["c2"].at
    /\ Has(cache, calls["c1"].key)

-----------------------------------------------------------------------------
(* Claims about the recursive splitter *)

\* the chunk contains none of the configured non-empty separators
IsAtomicToken(chunk, separators) ==
    \A j \in 1..Len(separators) :
        separators[j] # <<>> => ~Includes(chunk, separators[j])

RECURSIVE WordsFrom(_, _, _)
WordsFrom(text, i, word) ==
    IF i > Len(text) THEN (IF word = <<>> THEN <<>> ELSE <<word>>)
    ELSE IF text[i] \in Whitespace
         THEN (IF word = <<>> THEN <<>> ELSE <<word>>) \o WordsFrom(text, i + 1, <<>>)
         ELSE WordsFrom(text, i + 1, Append(word, text[i]))

Words(text) == WordsFrom(text, 1, <<>>)

RECURSIVE WordsOfAll(_)
WordsOfAll(chunks) ==
    IF chunks = <<>> THEN <<>> ELSE Words(Head(chunks)) \o WordsOfAll(Tail(chunks))

\* C5: the chunks, taken before the overlap prefixes are added (finalChunks
\* at line 79 of the outermost call), hold the words of the input in their
\* order, none dropped, duplicated or reordered, also those split by a
\* recursive call.
C5_PiecesPreserved ==
    split.pc = "returned" => WordsOfAll(split.finalChunks) = Words(split.text)

-----------------------------------------------------------------------------
(* Claims about the fixed-size splitter *)

\* C10: a FixedSizeTextSplitter with chunkOverlap >= chunkSize is rejected
\* as a configuration error: on a non-empty text splitText fails before it
\* emits any chunk, instead of looping without advancing.
C10_StrideGuarded ==
    (fixed.pc # "idle" /\ fixed.chunkOverlap >= fixed.chunkSize /\ fixed.text # <<>>) =>
        fixed.chunks = <<>>

-----------------------------------------------------------------------------
(* Claims about the filter compilers *)

\* a leaf condition of the point-match dialect
QdrantConditionAccepts(c, md) ==
    /\ Has(md, c.key)
    /\ Has(c, "match") => md[c.key] = c.match.value
    /\ Has(c, "range") => \A op \in DOMAIN c.range : Compare(op, md[c.key], c.range[op])

\* the point-match dialect read as the claim reads it: must is all of,
\* should is at least one of, must_not is none of
RECURSIVE QdrantAccepts(_, _)
QdrantAccepts(q, md) ==
    LET Clause(c) == IF Has(c, "key") THEN QdrantConditionAccepts(c, md)
                     ELSE QdrantAccepts(c, md)
    IN  /\ Has(q, "must") => \A i \in 1..Len(q["must"]) : Clause(q["must"][i])
        /\ Has(q, "should") => \E i \in 1..Len(q["should"]) : Clause(q["should"][i])
        /\ Has(q, "must_not") => \A i \in 1..Len(q["must_not"]) : ~Clause(q["must_not"][i])

\* the metadata value a field of the boolean-query dialect names, if any
FieldValue(field, md) == {md[k] : k \in {j \in DOMAIN md : MetadataField(j) = field}}

\* the boolean-query dialect read the same way
RECURSIVE OpenSearchAccepts(_, _)
OpenSearchAccepts(q, md) ==
    IF Has(q, "term")
    THEN \A f \in DOMAIN q.term : FieldValue(f, md) = {q.term[f]}
    ELSE IF Has(q, "terms")
    THEN \A f \in DOMAIN q.terms :
            \E j \in 1..Len(q.terms[f]) : FieldValue(f, md) = {q.terms[f][j]}
    ELSE IF Has(q, "range")
    THEN \A f \in DOMAIN q.range :
            /\ FieldValue(f, md) # {}
            /\ \A op \in DOMAIN q.range[f] :
                    Compare(op, Some(FieldValue(f, md)), q.range[f][op])
    ELSE LET b == q.bool IN
         /\ Has(b, "must") => \A i \in 1..Len(b["must"]) : OpenSearchAccepts(b["must"][i], md)
         /\ Has(b, "should") =>
                \E i \in 1..Len(b["should"]) : OpenSearchAccepts(b["should"][i], md)
         /\ Has(b, "must_not") =>
                \A i \in 1..Len(b["must_not"]) : ~OpenSearchAccepts(b["must_not"][i], md)

\* C3: for every filter tree and every metadata record, the record is
\* accepted by the output of toQdrantFilter and by the output of
\* toOpenSearchFilter exactly when it satisfies the source filter.
C3_CompiledEquivalent ==
    \A md \in MetadataRecords :
        /\ flt.pc = "given" /\ flt.qdrant # {} =>
                (QdrantAccepts(Some(flt.qdrant), md) <=> Satisfies(flt.filter, md))
        /\ flt.pc = "given" /\ flt.opensearch # {} =>
                (OpenSearchAccepts(Some(flt.opensearch), md) <=> Satisfies(flt.filter, md))

-----------------------------------------------------------------------------
(* Claims about POST /query *)

IsPrefix(short, long) ==
    Len(short) <= Len(long) /\ \A i \in 1..Len(short) : short[i] = long[i]

\* the steps of a request handled with caching enabled, by what its cache
\* read returned
StepsInOrder(req) ==
    IF req.cached # {} THEN <<"get", "respond">>
    ELSE <<"get", "search">> \o (IF Reranking(req.body) THEN <<"rerank">> ELSE <<>>)
            \o <<"set", "respond">>

\* C1: a /query request handled with caching enabled reads the cache first;
\* on a hit it returns the cached response and never searches, reranks or
\* writes; on a miss it searches, then reranks if asked to, then writes the
\* cache under the key it read, and only then responds.  (A request whose
\* search fails stops there with status 500.)
C1_QueryStepOrder ==
    \A r \in DOMAIN reqs :
        LET req == reqs[r] IN
        (req.pc # "idle" /\ ~QueryMissing(req.body) /\ Caching(req.body)) =>
            /\ \/ IsPrefix(req.steps, StepsInOrder(req))
               \/ /\ req.steps = <<"get", "search", "fail">>
                  /\ req.cached = {}
                  /\ req.status = 500
            /\ (req.pc = "done" /\ req.status = 200) => req.steps = StepsInOrder(req)
            /\ (req.pc = "done" /\ req.cached # {}) =>
                    req.response = {CachedResponse(Some(req.cached))}
            /\ req.readKey = {req.cacheKey}
            /\ req.writeKey \subseteq req.readKey
            /\ (req.pc = "done" /\ req.status = 200 /\ req.cached = {}) =>
                    req.writeKey = req.readKey /\ req.response = req.written

\* a request answered from the entry an earlier request, reranked, wrote
C1_Witness ==
    \E a, b \in DOMAIN reqs :
        /\ reqs[a].pc = "done" /\ reqs[a].steps = <<"get", "search", "rerank", "set", "respond">>
        /\ reqs[b].pc = "done" /\ reqs[b].steps = <<"get", "respond">>
        /\ reqs[b].cached = reqs[a].written
        /\ reqs[b].status = 200

\* C2: every result returned to a /query caller that gave a non-empty
\* metadata filter satisfies the filter.
C2_ResultsSatisfyFilter ==
    \A r \in DOMAIN reqs :
        LET req == reqs[r] IN
        (req.pc = "done" /\ req.status = 200 /\ req.body.filter \notin {{}, {EmptyObj}}) =>
            LET results == Some(req.response).results IN
            \A i \in 1..Len(results) : Satisfies(Some(req.body.filter), results[i].metadata)

\* C9: the reranker is called only for a request that sets the rerank flag
\* on a server with a reranker; every other request is answered with the
\* results in the order and with the scores the store produced.
C9_RerankOnlyOnRequest ==
    \A r \in DOMAIN reqs :
        LET req == reqs[r] IN
        (req.pc = "done" /\ req.status = 200) =>
            /\ (\E i \in 1..Len(req.steps) : req.steps[i] = "rerank") => Reranking(req.body)
            /\ ~Reranking(req.body) =>
                    Some(req.response).results =
                        FormatResponse("", retrieve(store, Some(req.body.query), req.topK,
                                                    req.body.filter)).results

-----------------------------------------------------------------------------
(* Claims about the cache key *)

\* C8: two /query requests are given the same cache key only if they have
\* the same query text, the same effective top-k and the same filter, an
\* absent filter counting as the empty one.
C8_KeyInjective ==
    \A a, b \in DOMAIN keyed :
        (keyed[a].cacheKey # {} /\ keyed[a].cacheKey = keyed[b].cacheKey) =>
            /\ keyed[a].body.query = keyed[b].body.query
            /\ TopK(keyed[a].body.k) = TopK(keyed[b].body.k)
            /\ FilterOrEmpty(keyed[a].body.filter) = FilterOrEmpty(keyed[b].body.filter)

\* two keys made for query texts holding ':' and '{': one pair of requests
\* that differ only in the filter, keyed apart
C8_Witness ==
    /\ DOMAIN keyed = KeyedSlots
    /\ keyed["q1"].cacheKey # {} /\ keyed["q2"].cacheKey # {}
    /\ keyed["q1"].cacheKey # keyed["q2"].cacheKey
    /\ keyed["q1"].body.query = "a:5:{}" /\ keyed["q2"].body.query = "a:5:{}"
    /\ keyed["q1"].body.k = {} /\ keyed["q2"].body.k = {DefaultTopK}
    /\ keyed["q1"].body.filter = {} /\ keyed["q2"].body.filter = {[equals |-> <<<<"x", 1>>>>]}

-----------------------------------------------------------------------------
(* Claims about the windows of FixedSizeTextSplitter *)

\* String.prototype.slice(0, n)
SliceFirst(text, n) == SubSeq(text, 1, Min(n, Len(text)))

IsSuffix(short, long) ==
    short = <<>> \/ (Len(short) <= Len(long) /\ SliceLast(long, Len(short)) = short)

OverlapInRange(cfg) == 0 < cfg.chunkOverlap /\ cfg.chunkOverlap < cfg.chunkSize

\* C11 as stated: with 0 < chunkOverlap < chunkSize, for every pair of
\* adjacent chunks the last chunkOverlap characters of the first equal the
\* first chunkOverlap characters of the second.
C11_AdjacentOverlap ==
    (fixed.pc # "idle" /\ OverlapInRange(fixed)) =>
        \A i \in 1..(Len(fixed.chunks) - 1) :
            SliceLast(fixed.chunks[i], fixed.chunkOverlap)
                = SliceFirst(fixed.chunks[i + 1], fixed.chunkOverlap)

\* C11, amended: with 0 < chunkOverlap < chunkSize, for every pair of
\* adjacent chunks, if the first has the full length chunkSize its last
\* chunkOverlap characters equal the first chunkOverlap characters of the
\* second; if it is shorter (it was clipped at the end of the text) the
\* second is a suffix of it, shorter than chunkOverlap.
C11_FullChunkOverlap ==
    (fixed.pc # "idle" /\ OverlapInRange(fixed)) =>
        \A i \in 1..(Len(fixed.chunks) - 1) :
            IF Len(fixed.chunks[i]) = fixed.chunkSize
            THEN SliceLast(fixed.chunks[i], fixed.chunkOverlap)
                    = SliceFirst(fixed.chunks[i + 1], fixed.chunkOverlap)
            ELSE /\ Len(fixed.chunks[i + 1]) < fixed.chunkOverlap
                 /\ IsSuffix(fixed.chunks[i + 1], fixed.chunks[i])

\* a call that returned a full chunk followed by its overlapping neighbour,
\* and a clipped chunk followed by a shorter one
C11_Witness ==
    /\ fixed.pc = "returned"
    /\ OverlapInRange(fixed)
    /\ \E i \in 1..(Len(fixed.chunks) - 1) :
            Len(fixed.chunks[i]) = fixed.chunkSize /\ Len(fixed.chunks[i + 1]) = fixed.chunkSize
    /\ \E i \in 1..(Len(fixed.chunks) - 1) : Len(fixed.chunks[i]) < fixed.chunkSize
    /\ \E i, j \in 1..Len(fixed.text) : fixed.text[i] # fixed.text[j]

\* the least integer not below n / s
CeilDiv(n, s) == (n + s - 1) \div s

\* C25: with stride s = chunkSize - chunkOverlap > 0 and a text of length
\* n, the chunks are the windows text[j*s, min(j*s + chunkSize, n)) for
\* j = 0, 1, ... while j*s < n: ceil(n / s) of them, each of 1 to chunkSize
\* characters, and every character of the text is in one of them.
C25_FixedWindows ==
    (fixed.pc = "returned" /\ fixed.chunkSize > fixed.chunkOverlap) =>
        LET s == fixed.chunkSize - fixed.chunkOverlap
            n == Len(fixed.text)
        IN  /\ Len(fixed.chunks) = CeilDiv(n, s)
            /\ \A j \in 0..(Len(fixed.chunks) - 1) :
                    /\ j * s < n
                    /\ fixed.chunks[j + 1]
                          = SubSeq(fixed.text, j * s + 1, Min(j * s + fixed.chunkSize, n))
                    /\ Len(fixed.chunks[j + 1]) \in 1..fixed.chunkSize
            /\ Len(fixed.chunks) * s >= n
            /\ \A i \in 1..n : \E j \in 0..(Len(fixed.chunks) - 1) :
                    /\ i - j * s \in 1..Len(fixed.chunks[j + 1])
                    /\ fixed.chunks[j + 1][i - j * s] = fixed.text[i]

\* a call with an overlap returned two windows or more, the last one
\* clipped, from a text whose length is no multiple of the stride
C25_Witness ==
    /\ fixed.pc = "returned"
    /\ OverlapInRange(fixed)
    /\ Len(fixed.chunks) >= 2
    /\ Len(fixed.chunks[Len(fixed.chunks)]) < fixed.chunkSize
    /\ Len(fixed.text) % (fixed.chunkSize - fixed.chunkOverlap) # 0
    /\ \E i, j \in 1..Len(fixed.text) : fixed.text[i] # fixed.text[j]

-----------------------------------------------------------------------------
(* Claims about the rerankers *)

\* the occurrences of a keyword in a content as a substring, counted from
\* left to right without overlap
RECURSIVE Occurrences(_, _, _)
Occurrences(content, keyword, i) ==
    IF i + Len(keyword) - 1 > Len(content) THEN 0
    ELSE IF OccursAt(content, keyword, i)
    THEN 1 + Occurrences(content, keyword, i + Len(keyword))
    ELSE Occurrences(content, keyword, i + 1)

\* the occurrences of all keywords of a query in the content of a result
TotalOccurrences(query, result) ==
    LET queryKeywords == extractKeywords(toLowerCase(query)) IN
    SumSeq([i \in 1..Len(queryKeywords) |->
        Occurrences(toLowerCase(result.document.content), queryKeywords[i], 1)])

Reorderings(n) == {p \in [1..n -> 1..n] : \A i, j \in 1..n : p[i] = p[j] => i = j}

KeywordCallReturned == rr.pc \in {"returned", "again"} /\ rr.reranker.kind = "keyword"

\* C12: KeywordReranker.rerank returns a permutation of the input results in
\* which each score is the original score times (1 + 0.1 x the keyword
\* occurrences in the lower-cased content), in descending order of the new
\* score, results of equal new score in their input order.
C12_KeywordRerankResult ==
    KeywordCallReturned =>
        /\ Len(rr.out) = Len(rr.results)
        /\ \E p \in Reorderings(Len(rr.results)) :
                \A i \in 1..Len(rr.out) :
                    /\ rr.out[i].document = rr.results[p[i]].document
                    /\ rr.out[i].score =
                            BoostedScore(rr.results[p[i]].score,
                                         TotalOccurrences(rr.query, rr.results[p[i]]))
                    /\ \A j \in (i + 1)..Len(rr.out) :
                            /\ rr.out[i].score >= rr.out[j].score
                            /\ rr.out[i].score = rr.out[j].score => p[i] < p[j]

\* the place of the result with document id in a list of results
PlaceOf(id, results) == CHOOSE i \in 1..Len(results) : results[i].document.id = id

\* C30: of two results with the same original score, the one whose content
\* has more occurrences of the query keywords is ranked no lower than the
\* other by KeywordReranker, whatever the score, zero and negative scores
\* included.
C30_MoreKeywordsNoLower ==
    (rr.pc \in {"returned", "again"} /\ rr.reranker.kind = "keyword") =>
        \A i, j \in 1..Len(rr.results) :
            (rr.results[i].score = rr.results[j].score
                /\ TotalOccurrences(rr.query, rr.results[i])
                        > TotalOccurrences(rr.query, rr.results[j])) =>
                PlaceOf(rr.results[i].document.id, rr.out)
                    < PlaceOf(rr.results[j].document.id, rr.out)

DocumentOrder(results) == [i \in 1..Len(results) |-> results[i].document.id]

\* C13: KeywordReranker.rerank applied to its own output with the same
\* query returns the documents in the order of the first application.
C13_RerankOrderIdempotent ==
    (rr.pc = "again" /\ rr.reranker.kind = "keyword") =>
        DocumentOrder(rr.again) = DocumentOrder(rr.out)

RrfCallReturned == rr.pc \in {"returned", "again"} /\ rr.reranker.kind = "rrf"

\* C14: RRFReranker.rerank gives the result at zero-based input position r
\* the score 1 / (k + r + 1), whatever its score was; for the default k = 60
\* and every k >= 0 the scores decrease strictly with the rank, and the
\* output lists the documents in their input order.
C14_RrfScoresByRank ==
    RrfCallReturned =>
        LET k == IF rr.reranker.k = {} THEN 60 ELSE Some(rr.reranker.k) IN
        /\ Len(rr.out) = Len(rr.results)
        /\ \A i \in 1..Len(rr.out) :
                /\ rr.out[i].document = rr.results[i].document
                /\ rr.out[i].score.num = 1
                /\ rr.out[i].score.den = k + (i - 1) + 1
        /\ \A i \in 1..(Len(rr.out) - 1) :
                rr.out[i + 1].score.num * rr.out[i].score.den
                    < rr.out[i].score.num * rr.out[i + 1].score.den

\* a call of the default RRFReranker on results whose scores rise with the
\* rank, returned in the input order
C14_Witness ==
    /\ rr.pc = "returned" /\ rr.reranker = [kind |-> "rrf", k |-> {}]
    /\ Len(rr.results) >= 2
    /\ rr.results[1].score < rr.results[2].score
    /\ DocumentOrder(rr.out) = DocumentOrder(rr.results)
    /\ rr.out[1].score = [num |-> 1, den |-> 61]

\* C15: NoOpReranker, KeywordReranker and RRFReranker complete without
\* raising an error for every query string and every well-formed result list.
C15_RerankNeverThrows == rr.pc # "thrown"

-----------------------------------------------------------------------------
(* Claims about empty inputs *)

IsBlank(text) == \A i \in 1..Len(text) : text[i] \in Whitespace

\* C16: empty inputs give empty outputs without error: both splitters
\* return no chunk for the empty text, whatever chunkSize and chunkOverlap,
\* the recursive splitter also for a text of whitespace only; every
\* reranker returns the empty list for the empty list.
C16_EmptyInEmptyOut ==
    /\ (split.pc = "returned" /\ IsBlank(split.text)) => split.chunks = <<>>
    /\ (fixed.pc # "idle" /\ fixed.text = <<>>) => fixed.chunks = <<>>
    /\ (rr.pc # "idle" /\ rr.results = <<>>) =>
            /\ rr.pc # "thrown"
            /\ rr.out = <<>>
            /\ rr.again = <<>>

\* the recursive splitter, with an overlap, returned from a text of spaces
\* and line breaks
C16_Witness ==
    /\ split.pc = "returned"
    /\ split.chunkOverlap > 0
    /\ Includes(split.text, <<" ">>) /\ Includes(split.text, <<"\n">>)
    /\ IsBlank(split.text)
    /\ split.chunks = <<>>

-----------------------------------------------------------------------------
(* Claims about failures of the store *)

CountOf(steps, step) == Cardinality({i \in 1..Len(steps) : steps[i] = step})

\* what holds of a request whose search has failed
FailedQueryLeftNoTrace ==
    \A r \in DOMAIN reqs :
        LET req == reqs[r] IN
        (req.pc = "done" /\ req.status = 500) =>
            /\ req.thrown # {}
            /\ req.caught = req.thrown
            /\ req.searches = 1
            /\ CountOf(req.steps, "search") = 1
            /\ CountOf(req.steps, "set") = 0
            /\ req.writeKey = {} /\ req.written = {}

\* C17: what similaritySearch throws reaches the caller of
\* Retriever.retrieve as it is; the store is called once for the query; on
\* /query the failed query writes no cache entry and the failure leaves the
\* cache as it was.
C17_StoreFailurePropagates ==
    /\ []FailedQueryLeftNoTrace
    /\ [][\A r \in Reqs, err \in StoreErrors : RetrieveFails(r, err) => cache' = cache]_vars

\* a query failed after a cache miss while the cache held the entry of
\* another query
C17_Witness ==
    \E r \in DOMAIN reqs :
        /\ reqs[r].pc = "done" /\ reqs[r].status = 500
        /\ reqs[r].steps = <<"get", "search", "fail">>
        /\ reqs[r].thrown = {"ECONNREFUSED"}
        /\ cache # EmptyObj

-----------------------------------------------------------------------------
(* Claims about the shape of the compiled filters *)

OnlyArm(filter, arm) == DOMAIN filter = {arm}

\* list holds the compilation of each child, in the order of the children
CompiledInOrder(list, children, compile(_)) ==
    /\ Len(list) = Len(children)
    /\ \A i \in 1..Len(children) : list[i] = compile(children[i])

\* the two clauses of the example, as the boolean-query dialect writes them
TechTerm == [term |-> Put(EmptyObj, "metadata.category", "tech")]

ViewsRangeGt == [range |-> Put(EmptyObj, "metadata.views", [gt |-> 1000])]

\* the must list of the compiled and of the example, in each dialect
ExampleMustLists ==
    /\ flt.given = TechAndViews /\ flt.opensearch # {} =>
            Some(flt.opensearch).bool["must"]
                = <<[bool |-> [must |-> <<TechTerm>>]], [bool |-> [must |-> <<ViewsRangeGt>>]]>>
    /\ flt.given = TechAndViewsFlat /\ flt.opensearch # {} =>
            Some(flt.opensearch).bool["must"] = <<TechTerm, ViewsRangeGt>>
    /\ flt.given \in {TechAndViews, TechAndViewsFlat} /\ flt.qdrant # {} =>
            Len(Some(flt.qdrant)["must"]) = 2

\* C19 as stated: an and of n children alone compiles to a must list of
\* exactly n entries, the i-th the compilation of the i-th child, for every
\* n; the example compiles to must lists of length 2.
C19_AndCompilesToMust ==
    flt.pc = "given" /\ OnlyArm(flt.given, "and") =>
        /\ flt.qdrant # {} =>
                /\ Has(Some(flt.qdrant), "must")
                /\ CompiledInOrder(Some(flt.qdrant)["must"], flt.given["and"], toQdrantFilter)
        /\ flt.opensearch # {} =>
                /\ Has(Some(flt.opensearch).bool, "must")
                /\ CompiledInOrder(Some(flt.opensearch).bool["must"], flt.given["and"],
                                   toOpenSearchFilter)
        /\ ExampleMustLists

\* C19: an and of n >= 1 children alone compiles to nothing but a must list
\* of exactly n entries, the i-th the compilation of the i-th child; an and
\* of no children compiles to an output without a must list.  The example
\* compiles to must lists of length 2, its term and range.gt clause each
\* inside the compiled child (directly in must when the two arms sit on one
\* filter).
C19_NonEmptyAndCompilesToMust ==
    /\ flt.pc = "given" /\ OnlyArm(flt.given, "and") =>
          /\ flt.qdrant # {} =>
                IF flt.given["and"] = <<>> THEN Some(flt.qdrant) = EmptyObj
                ELSE /\ OnlyArm(Some(flt.qdrant), "must")
                     /\ CompiledInOrder(Some(flt.qdrant)["must"], flt.given["and"],
                                        toQdrantFilter)
          /\ flt.opensearch # {} =>
                IF flt.given["and"] = <<>> THEN Some(flt.opensearch) = [bool |-> EmptyObj]
                ELSE /\ OnlyArm(Some(flt.opensearch).bool, "must")
                     /\ CompiledInOrder(Some(flt.opensearch).bool["must"], flt.given["and"],
                                        toOpenSearchFilter)
    /\ flt.pc = "given" => ExampleMustLists

\* the and of the example has been compiled to both dialects
C19_Witness ==
    /\ flt.pc = "given" /\ flt.given = TechAndViews
    /\ flt.qdrant # {} /\ flt.opensearch # {}
    /\ Len(Some(flt.opensearch).bool["must"]) = 2

\* in a boolean query and in every query nested in it, a should list and
\* minimum_should_match = 1 come together or not at all
RECURSIVE ShouldPaired(_)
ShouldPaired(clause) ==
    IF ~Has(clause, "bool") THEN TRUE
    ELSE LET b == clause.bool IN
         /\ Has(b, "should") <=> Has(b, "minimum_should_match")
         /\ Has(b, "minimum_should_match") => b["minimum_should_match"] = 1
         /\ \A arm \in {"must", "should", "must_not"} :
                Has(b, arm) => \A i \in 1..Len(b[arm]) : ShouldPaired(b[arm][i])

\* C20: an or of n >= 1 children compiles, in both dialects, to a should
\* list of exactly n entries, the i-th the compilation of the i-th child; a
\* boolean query has minimum_should_match = 1 exactly where it has a should
\* list, at every level of nesting.
C20_OrCompilesToShould ==
    flt.pc = "given" =>
        /\ Has(flt.given, "or") /\ flt.given["or"] # <<>> =>
              /\ flt.qdrant # {} =>
                    /\ Has(Some(flt.qdrant), "should")
                    /\ CompiledInOrder(Some(flt.qdrant)["should"], flt.given["or"],
                                       toQdrantFilter)
              /\ flt.opensearch # {} =>
                    /\ Has(Some(flt.opensearch).bool, "should")
                    /\ CompiledInOrder(Some(flt.opensearch).bool["should"], flt.given["or"],
                                       toOpenSearchFilter)
        /\ flt.opensearch # {} => ShouldPaired(Some(flt.opensearch))
        /\ flt.given = TechOrLiterature /\ flt.opensearch # {} =>
              Some(flt.opensearch).bool
                = [should |-> <<[bool |-> [must |-> <<TechTerm>>]],
                                [bool |-> [must |-> <<[term |-> Put(EmptyObj,
                                            "metadata.category", "literature")]>>]]>>,
                   minimum_should_match |-> 1]
        /\ flt.given = TechOrLiterature /\ flt.qdrant # {} =>
              Len(Some(flt.qdrant)["should"]) = 2

\* both compilers have run on a filter with an or beside an and, a child of
\* the and holding an or of two children, the first of them an empty or
C20_Witness ==
    /\ flt.pc = "given" /\ flt.qdrant # {} /\ flt.opensearch # {}
    /\ Has(flt.given, "or") /\ flt.given["or"] # <<>> /\ Has(flt.given, "and")
    /\ \E i \in 1..Len(flt.given["and"]) :
            /\ Has(flt.given["and"][i], "or")
            /\ Len(flt.given["and"][i]["or"]) = 2
            /\ flt.given["and"][i]["or"][1] = [or |-> <<>>]

-----------------------------------------------------------------------------
(* Claims about the chunks of the recursive splitter *)

\* the text holds none of the separators of the configuration but ''
NoSeparatorOccurs(text, separators) ==
    \A i \in 1..Len(separators) : separators[i] # <<>> => ~Includes(text, separators[i])

\* the call that returned had no overlap and a text without separators
UnsplittableReturned ==
    /\ split.pc = "returned" /\ split.chunkOverlap = 0
    /\ NoSeparatorOccurs(split.text, split.separators)

\* C21 as stated: without overlap, every text that holds none of the
\* non-empty separators is returned as exactly one chunk, the trimmed text.
C21_UnsplittableIsOneChunk ==
    UnsplittableReturned => split.chunks = <<Trim(split.text)>>

\* C21: without overlap, a text that holds none of the non-empty separators
\* and is not blank is returned as exactly one chunk, the trimmed text,
\* whatever its length; a blank one is returned as no chunk.  The word of 32
\* characters with chunkSize 10 is returned as one chunk equal to it.
C21_UnsplittableNonBlankIsOneChunk ==
    /\ UnsplittableReturned =>
            IF IsBlank(split.text) THEN split.chunks = <<>>
            ELSE split.chunks = <<Trim(split.text)>>
    /\ split.pc = "returned" /\ split.text = LongWord =>
            /\ Len(split.chunks) = 1
            /\ split.chunks[1] = LongWord
            /\ Len(split.chunks[1]) = 32

\* a text longer than chunkSize after trimming, with a line break to trim
\* off, came back as one chunk
C21_Witness ==
    /\ UnsplittableReturned
    /\ split.text # Trim(split.text)
    /\ Len(Trim(split.text)) > split.chunkSize
    /\ Len(split.chunks) = 1

\* the characters of the non-empty separators of a configuration
SeparatorChars(separators) ==
    {separators[i][1] : i \in {j \in 1..Len(separators) : separators[j] # <<>>}}

\* the atomic tokens of a text: its maximal runs of characters that are of
\* no separator, trimmed
RECURSIVE TokensFrom(_, _, _, _)
TokensFrom(text, i, token, chars) ==
    LET done == IF Trim(token) = <<>> THEN <<>> ELSE <<Trim(token)>> IN
    IF i > Len(text) THEN done
    ELSE IF text[i] \in chars
         THEN done \o TokensFrom(text, i + 1, <<>>, chars)
         ELSE TokensFrom(text, i + 1, Append(token, text[i]), chars)

AtomicTokens(text, separators) == TokensFrom(text, 1, <<>>, SeparatorChars(separators))

\* the call that returned had an overlap and a text with at least one token,
\* every token within chunkSize
TokensFitReturned ==
    /\ split.pc = "returned" /\ split.chunkOverlap > 0
    /\ LET tokens == AtomicTokens(split.text, split.separators) IN
        /\ tokens # <<>>
        /\ \A i \in 1..Len(tokens) : Len(tokens[i]) <= split.chunkSize

\* C22: with an overlap, a text whose atomic tokens are all within chunkSize
\* is split into at least one chunk, every chunk no longer than chunkSize +
\* chunkOverlap.
C22_ChunkWithinSizePlusOverlap ==
    TokensFitReturned =>
        /\ Len(split.chunks) >= 1
        /\ \A i \in 1..Len(split.chunks) :
                Len(split.chunks[i]) <= split.chunkSize + split.chunkOverlap

\* the chunks of greedy packing at every level of the recursion, before any
\* overlap prefix is added: those the code computes with chunkOverlap 0
PackedChunks(text, separators, cfg) ==
    FinalChunks(text, separators, [cfg EXCEPT !.chunkOverlap = 0])

\* C24: with an overlap and two chunks or more, the first chunk returned is
\* the first packed chunk and every later one is the last chunkOverlap
\* characters of the packed chunk before it, a space, and its own packed
\* chunk: one overlap prefix each, also on chunks that come out of a
\* recursive call.
C24_OneOverlapPrefix ==
    (split.pc = "returned" /\ split.chunkOverlap > 0 /\ Len(split.chunks) >= 2) =>
        LET packed == PackedChunks(split.text, split.separators, split) IN
        /\ Len(split.chunks) = Len(packed)
        /\ split.chunks[1] = packed[1]
        /\ \A i \in 2..Len(packed) :
                split.chunks[i]
                    = SliceLast(packed[i - 1], split.chunkOverlap) \o <<" ">> \o packed[i]

-----------------------------------------------------------------------------
(* Claims about the removal of cache entries *)

\* the step takes the entry of key out of the map
Leaves(key) == Has(cache, key) /\ ~Has(cache', key)

\* the step is the body of a delete(key), of a clear() or of a get(key)
\* that finds the entry expired
RemovingCall(key) ==
    \/ \E c \in Callers : CallDelete(c, key)
    \/ \E c \in Callers : CallClear(c)
    \/ \E c \in Callers : CallGet(c, key) /\ IsExpired(cache[key], now)

\* every other entry is as it was
OthersUnchanged(key) ==
    /\ DOMAIN cache' \ {key} = DOMAIN cache \ {key}
    /\ \A k \in DOMAIN cache \ {key} : cache'[k] = cache[k]

\* C23: an entry leaves the map only in a delete(key), a clear() or a
\* get(key) that finds it expired; delete removes its key whatever the
\* entry and leaves every other key as it was, clear removes every entry;
\* the passing of time removes nothing, so size() goes on counting an
\* expired entry that is not read.
C23_EntryLeavesOnlyByCall ==
    /\ [][\A key \in CacheKeys : Leaves(key) => RemovingCall(key)]_vars
    /\ [][\A c \in Callers, key \in CacheKeys :
            CallDelete(c, key) => ~Has(cache', key) /\ OthersUnchanged(key)]_vars
    /\ [][\A c \in Callers : CallClear(c) => CacheSize(cache') = 0]_vars
    /\ [][Tick => cache' = cache /\ CacheSize(cache') = CacheSize(cache)]_vars

\* a delete of one key has run while the entry of the other key, expired
\* and not read since, is still counted
C23_Witness ==
    /\ calls["c1"].op = "delete" /\ calls["c1"].key = "k1"
    /\ Has(cache, "k2") /\ ~Has(cache, "k1")
    /\ IsExpired(cache["k2"], now)
    /\ CacheSize(cache) = 1

-----------------------------------------------------------------------------
(* Claims about the in arm *)

\* the number of entries the equals arm and the range arms put on must
\* before the entries of in
EntriesBeforeIn(filter) ==
    Len(Entries(filter, "equals"))
        + SumSeq([a \in 1..Len(RangeArms) |-> Len(Entries(filter, RangeArms[a]))])

\* the entry the point-match dialect has for a field of in
PointMatchIn(key, values) ==
    IF Len(values) = 1 THEN [key |-> key, match |-> [value |-> values[1]]]
    ELSE [should |-> [i \in 1..Len(values) |->
                        [key |-> key, match |-> [value |-> values[i]]]]]

\* C26: every field of an in arm puts exactly one entry on the must list of
\* its filter.  In the point-match dialect the entry is a match clause when
\* the field has one value, and else a nested should with one match clause
\* per value, in order; in the boolean-query dialect it is one terms clause
\* on metadata.<field> with all the values.
C26_InLowering ==
    (flt.pc = "given" /\ Has(flt.given, "in")) =>
        LET ins == flt.given["in"]
            pre == EntriesBeforeIn(flt.given)
            ands == IF Has(flt.given, "and") THEN Len(flt.given["and"]) ELSE 0
        IN  /\ flt.qdrant # {} =>
                LET must == Some(flt.qdrant)["must"] IN
                /\ Len(must) = pre + Len(ins) + ands
                /\ \A i \in 1..Len(ins) : must[pre + i] = PointMatchIn(ins[i][1], ins[i][2])
            /\ flt.opensearch # {} =>
                LET must == Some(flt.opensearch).bool["must"] IN
                /\ Len(must) = pre + Len(ins) + ands
                /\ \A i \in 1..Len(ins) :
                        must[pre + i]
                            = [terms |-> Put(EmptyObj, "metadata." \o ins[i][1], ins[i][2])]

\* both compilers have run on a filter whose in arm, after an equals and a
\* range entry, has a field with two values and a field with one
C26_Witness ==
    /\ flt.pc = "given" /\ flt.qdrant # {} /\ flt.opensearch # {}
    /\ Has(flt.given, "in") /\ EntriesBeforeIn(flt.given) = 2
    /\ \E i, j \in 1..Len(flt.given["in"]) :
            Len(flt.given["in"][i][2]) = 2 /\ Len(flt.given["in"][j][2]) = 1
    /\ Len(Some(flt.qdrant)["must"]) = 4

\* C28: a get(key) issued more than ttl seconds after the latest
\* set(key, value, ttl) with an explicit ttl >= 0, ttl = 0 included, returns
\* null.
C28_ExplicitTtlExpires ==
    \A c \in Callers :
        (calls[c].op = "get" /\ calls[c].written # {}) =>
            LET w == Some(calls[c].written) IN
            (w.ttl # {} /\ Some(w.ttl) >= 0
                    /\ calls[c].at > w.at + Some(w.ttl) * MsPerSecond) =>
                calls[c].result = {}

-----------------------------------------------------------------------------
(* Claims about cached responses *)

\* the results the handler computes for a request when it misses the cache
MissResults(req) ==
    LET results == retrieve(store, Some(req.body.query), req.topK, req.body.filter) IN
    IF Reranking(req.body)
    THEN Rerank(Some(config.reranker), Some(req.body.query), results)
    ELSE results

\* C27: a request is answered with the results its miss path produces, in
\* reranked order when it asks for reranking and in store order when it
\* does not, also when it is served from an entry that a request with the
\* same query, top-k and filter and another rerank flag has written.
C27_HitEqualsMiss ==
    \A r \in DOMAIN reqs :
        LET req == reqs[r] IN
        (req.pc = "done" /\ req.status = 200) =>
            Some(req.response).results = FormatResponse("", MissResults(req)).results

\* the entry has a deadline and the clock is past it
PastDeadline(item) == item.expiry # {} /\ now > Some(item.expiry)

\* a /query request arrives and its cache.get() finds an entry that is not
\* past its deadline: the entry is what the handler gets
FreshEntryIsRead ==
    \A r \in Reqs, body \in CachingBodies :
        Receive(r, body) =>
            LET key == reqs'[r].cacheKey IN
            (Has(cache, key) /\ ~PastDeadline(cache[key])) =>
                reqs'[r].cached = {cache[key].value}

\* an entry leaves the cache only in the get of a request with its key, past
\* its deadline
EntryLeavesPastDeadline ==
    \A key \in DOMAIN cache :
        ~Has(cache', key) =>
            /\ PastDeadline(cache[key])
            /\ \E r \in Reqs, body \in CachingBodies :
                    Receive(r, body) /\ reqs'[r].cacheKey = key

\* what the handler got from the cache is what it answers, with cached: true,
\* and entries have a deadline only when cacheTTL is configured
HitsAreServed ==
    /\ \A r \in DOMAIN reqs :
            (reqs[r].pc = "done" /\ reqs[r].cached # {}) =>
                /\ reqs[r].status = 200
                /\ Some(reqs[r].response) = Put(Some(reqs[r].cached), "cached", TRUE)
    /\ \A key \in DOMAIN cache : cache[key].expiry = {} <=> config.cacheTTL = {}

\* C29: an ingest and a delete leave the result cache as it was; a cached
\* response is served, with cached: true, to every request with its key
\* until its deadline has passed, and always when no cacheTTL is
\* configured, whatever has been deleted from or added to the store since
\* it was written.
C29_StoreChangesKeepCache ==
    /\ [][\A d \in DOMAIN Corpus : Ingest(d) => cache' = cache]_vars
    /\ [][\A ids \in SUBSET DOMAIN Corpus : DeleteDocuments(ids) => cache' = cache]_vars
    /\ [][FreshEntryIsRead]_vars
    /\ [][EntryLeavesPastDeadline]_vars
    /\ []HitsAreServed

\* a request was served from the cache, after the clock has advanced, a
\* response that holds a document no longer in the store and lacks one that
\* is in it
C29_Witness ==
    /\ now > ClockStart
    /\ store = {"d2"}
    /\ \E r \in DOMAIN reqs :
            /\ reqs[r].pc = "done" /\ reqs[r].cached # {}
            /\ Has(Some(reqs[r].response), "cached")
            /\ Len(Some(reqs[r].response).results) = 1
            /\ Some(reqs[r].response).results[1].content = Corpus["d1"].content

====
